---- MODULE Spec2Model ----
(***************************************************************************)
(* Eligibility Determination Engine (src/eligibility).                     *)
(*                                                                         *)
(* Python values are modelled as records [k, n, s]: k is the Python type   *)
(* ("str", "num", "none", "nan"), n the integer value of a number, s the   *)
(* characters of a string (a sequence of one-character strings).           *)
(* Characters outside ASCII are named by their code point: "u0663" is      *)
(* ARABIC-INDIC DIGIT THREE (category Nd), "u00B2" is SUPERSCRIPT TWO      *)
(* (category No, str.isdigit() is true), "uD800" is a lone surrogate.      *)
(***************************************************************************)
EXTENDS Integers, Sequences, FiniteSets, TLC

VARIABLES
    eligible_customers,      \* DataLoader.eligible_customers: set of keys
    reasons_file,            \* DataLoader.reasons_file: key -> raw record
    checks_catalog,          \* ConfigLoader.checks_catalog
    reason_detection_rules,  \* ConfigLoader.reason_detection_rules["reasons"]
    reason_playbook,         \* ConfigLoader.reason_playbook["reason_playbook"]
    explanation_playbook,    \* ConfigLoader.explanation_playbook["explanations"]
    evidence_display_rules,  \* ConfigLoader.evidence_display_rules["display_rules"]
    pc,                      \* position inside process_message
    user_message,            \* argument of the running call
    request_id,              \* request id of the running call
    is_eligibility_check,    \* locals of process_message
    account_numbers,
    valid_accounts,
    invalid_accounts,
    eligibility_results,
    processor_latency,
    response,                \* value returned by the call
    stages,                  \* stages executed by the running call, in order
    calls,                   \* number of calls started
    prev_message,            \* argument and result of the previous call
    prev_response,
    log,                     \* entries handed to RAGLogger by the running call
    files,                   \* state of each configuration and data file on disk
    config_loader,           \* ConfigLoader._instance and its _initialized flag
    data_loader,             \* DataLoader._instance and its _initialized flag
    orchestrator,            \* EligibilityOrchestrator._instance, flag and components
    outcome                  \* how the last constructor or accessor call ended

vars == <<eligible_customers, reasons_file, checks_catalog,
          reason_detection_rules, reason_playbook, explanation_playbook,
          evidence_display_rules, pc, user_message, request_id,
          is_eligibility_check, account_numbers, valid_accounts,
          invalid_accounts, eligibility_results, processor_latency, response,
          stages, calls,
          prev_message, prev_response, log,
          files, config_loader, data_loader, orchestrator, outcome>>

stores == <<eligible_customers, reasons_file, checks_catalog,
            reason_detection_rules, reason_playbook, explanation_playbook,
            evidence_display_rules>>

\* the stores process_accounts only reads
lookups == <<eligible_customers, checks_catalog, reason_detection_rules,
             reason_playbook, explanation_playbook, evidence_display_rules>>

startup == <<files, config_loader, data_loader, orchestrator, outcome>>

-----------------------------------------------------------------------------
(* Bounds *)

\* longest message, in segments, of the extraction specification
MaxSegs == 3
\* longest input list of the validation specification
MaxList == 3
\* longest configured rule list of the reason-engine specification
MaxRules == 2
\* calls of process_message in one behaviour
MaxCalls == 2

-----------------------------------------------------------------------------
(* Characters and Python values *)

AsciiDigits == {"0","1","2","3","4","5","6","7","8","9"}

LowerSeq == <<"a","b","c","d","e","f","g","h","i","j","k","l","m",
              "n","o","p","q","r","s","t","u","v","w","x","y","z">>

UpperSeq == <<"A","B","C","D","E","F","G","H","I","J","K","L","M",
              "N","O","P","Q","R","S","T","U","V","W","X","Y","Z">>

LowerLetters == {LowerSeq[i] : i \in 1..26}

UpperLetters == {UpperSeq[i] : i \in 1..26}

\* str.lower() / re.IGNORECASE folding of one character
ToLower(c) ==
    IF c \in UpperLetters
    THEN LowerSeq[CHOOSE i \in 1..26 : UpperSeq[i] = c]
    ELSE c

\* regex \d on str patterns: Unicode decimal digits (category Nd)
IsReDigit(c) == c \in AsciiDigits \cup {"u0663"}

\* str.isdigit() of one character: Nd plus digits of category No
IsPyDigit(c) == c \in AsciiDigits \cup {"u0663", "u00B2"}

\* regex \w on str patterns: alphanumerics and the underscore
IsWord(c) == c \in LowerLetters \cup UpperLetters \cup AsciiDigits
                   \cup {"_", "u0663", "u00B2"}

\* regex \s and str.strip(): whitespace
IsSpace(c) == c \in {" ", "NL", "TAB"}

PyStr(t) == [k |-> "str", n |-> 0, s |-> t]

PyNum(i) == [k |-> "num", n |-> i, s |-> <<>>]

PyNone == [k |-> "none", n |-> 0, s |-> <<>>]

PyNaN == [k |-> "nan", n |-> 0, s |-> <<>>]

\* a list; s holds its elements
PyList(items) == [k |-> "list", n |-> 0, s |-> items]

\* Python truthiness: None, 0, "" and [] are false (NaN is true)
Truthy(v) ==
    CASE v.k = "none" -> FALSE
      [] v.k = "num" -> v.n # 0
      [] v.k \in {"str", "list"} -> v.s # <<>>
      [] OTHER -> TRUE

\* str.strip() leaves nothing
IsBlankText(t) == \A i \in 1..Len(t) : IsSpace(t[i])

\* "not message or not message.strip()" for a str or None argument
NotMessage(message) == ~Truthy(message) \/ IsBlankText(message.s)

-----------------------------------------------------------------------------
(* Regular-expression matching.  A position p in 0..Len(t) lies between    *)
(* t[p] and t[p+1].  A sub-pattern maps the set of positions where a match *)
(* may stand to the set of positions it can reach.                         *)

AllPos(t) == 0..Len(t)

\* the pattern without its \b
WordBoundaryNone(t, p) == TRUE

\* \b : exactly one of the neighbours is a word character
WordBoundary(t, p) ==
    LET before == p >= 1 /\ IsWord(t[p])
        after  == p < Len(t) /\ IsWord(t[p + 1])
    IN  before # after

ReB(t, P) == {p \in P : WordBoundary(t, p)}

\* a literal, matched case-insensitively
ReLit(t, P, w) ==
    {p + Len(w) : p \in {q \in P : /\ q + Len(w) <= Len(t)
                                   /\ \A i \in 1..Len(w) : ToLower(t[q + i]) = w[i]}}

\* the positions reached from p over characters of a class (a sequence of
\* booleans, one per character of t)
Run(t, p, in_class) == {q \in p..Len(t) : \A i \in (p + 1)..q : in_class[i]}

\* \s*
ReWs0(t, P) == UNION {Run(t, p, [i \in 1..Len(t) |-> IsSpace(t[i])]) : p \in P}

\* \s+
ReWs1(t, P) == UNION {Run(t, p, [i \in 1..Len(t) |-> IsSpace(t[i])]) \ {p} : p \in P}

\* .*?  ("." does not match a newline)
ReAny(t, P) == UNION {Run(t, p, [i \in 1..Len(t) |-> t[i] # "NL"]) : p \in P}

\* \d{n,}
ReDigitsAtLeast(t, P, n) ==
    UNION {{q \in Run(t, p, [i \in 1..Len(t) |-> IsReDigit(t[i])]) : p + n <= q} : p \in P}

-----------------------------------------------------------------------------
(* AccountExtractor *)

\* the length the account pattern asks for
AccountLen == 10

\* ACCOUNT_PATTERN = \b\d{10}\b matched at position p
AccountPatternAt(t, p) ==
    /\ p + AccountLen <= Len(t)
    /\ WordBoundary(t, p)
    /\ \A i \in 1..AccountLen : IsReDigit(t[p + i])
    /\ WordBoundary(t, p + AccountLen)

\* ACCOUNT_PATTERN.findall: leftmost non-overlapping matches from position p
RECURSIVE ACCOUNT_PATTERN_findall(_, _)
ACCOUNT_PATTERN_findall(t, p) ==
    IF p + AccountLen > Len(t) THEN <<>>
    ELSE IF AccountPatternAt(t, p)
         THEN <<SubSeq(t, p + 1, p + AccountLen)>>
                  \o ACCOUNT_PATTERN_findall(t, p + AccountLen)
         ELSE ACCOUNT_PATTERN_findall(t, p + 1)

\* the loop over matches with the "seen" set
RECURSIVE Dedupe(_, _)
Dedupe(matches, seen) ==
    IF matches = <<>> THEN <<>>
    ELSE IF Head(matches) \in seen
         THEN Dedupe(Tail(matches), seen)
         ELSE <<Head(matches)>> \o Dedupe(Tail(matches), seen \cup {Head(matches)})

\* AccountExtractor.extract: a list of str values
extract(message) ==
    IF NotMessage(message) THEN <<>>
    ELSE LET found == Dedupe(ACCOUNT_PATTERN_findall(message.s, 0), {})
         IN  [i \in 1..Len(found) |-> PyStr(found[i])]

-----------------------------------------------------------------------------
(* AccountValidator *)

\* the length _is_valid_account compares with
ValidLen == 10

\* a validator that accepts the digits 0-9 only
is_valid_account_ascii(account) ==
    /\ Truthy(account)
    /\ account.k = "str"
    /\ Len(account.s) = ValidLen
    /\ \A i \in 1..Len(account.s) : account.s[i] \in AsciiDigits

\* AccountValidator._is_valid_account
is_valid_account(account) ==
    /\ Truthy(account)
    /\ account.k = "str"
    /\ Len(account.s) = ValidLen
    /\ \A i \in 1..Len(account.s) : IsPyDigit(account.s[i])

\* the elements of a list that a test accepts, in order
RECURSIVE Filter(_, _)
Filter(list, keep) ==
    IF list = <<>> THEN <<>>
    ELSE IF keep[Head(list)]
         THEN <<Head(list)>> \o Filter(Tail(list), keep)
         ELSE Filter(Tail(list), keep)

\* AccountValidator.validate on a list value or None
validate(accounts) ==
    IF accounts = PyNone \/ ~Truthy(accounts)
    THEN [valid |-> <<>>, invalid |-> <<>>]
    ELSE LET elems == {accounts.s[i] : i \in 1..Len(accounts.s)}
         IN  [valid   |-> Filter(accounts.s, [a \in elems |-> is_valid_account(a)]),
              invalid |-> Filter(accounts.s, [a \in elems |-> ~is_valid_account(a)])]

-----------------------------------------------------------------------------
(* IntentDetector *)

\* the literal words of the keyword patterns
K == [
    eligible |-> <<"e","l","i","g","i","b","l","e">>,
    ity |-> <<"i","t","y">>,
    why |-> <<"w","h","y">>,
    is |-> <<"i","s">>,
    am |-> <<"a","m">>,
    are |-> <<"a","r","e">>,
    should |-> <<"s","h","o","u","l","d">>,
    was |-> <<"w","a","s">>,
    i |-> <<"i">>,
    we |-> <<"w","e">>,
    customer |-> <<"c","u","s","t","o","m","e","r">>,
    they |-> <<"t","h","e","y">>,
    he |-> <<"h","e">>,
    she |-> <<"s","h","e">>,
    no |-> <<"n","o">>,
    limit |-> <<"l","i","m","i","t">>,
    loan |-> <<"l","o","a","n">>,
    not |-> <<"n","o","t">>,
    getting |-> <<"g","e","t","t","i","n","g">>,
    a |-> <<"a">>,
    check |-> <<"c","h","e","c","k">>,
    eligibility |-> <<"e","l","i","g","i","b","i","l","i","t","y">>,
    allocation |-> <<"a","l","l","o","c","a","t","i","o","n">>,
    failed |-> <<"f","a","i","l","e","d">>,
    excluded |-> <<"e","x","c","l","u","d","e","d">>,
    account |-> <<"a","c","c","o","u","n","t">>,
    issue |-> <<"i","s","s","u","e">> ]

\* (?:w1|w2|...) over a set of literals
ReAlt(t, P, words) == UNION {ReLit(t, P, w) : w \in words}

\* ELIGIBILITY_KEYWORDS[0]: \beligible(?:ity)?\b
Kw1(t) ==
    LET a == ReLit(t, ReB(t, AllPos(t)), K.eligible)
    IN  ReB(t, a \cup ReLit(t, a, K.ity)) # {}

\* [1]: \bwhy\s+(?:is|am|are|should)\s+(?:i|we|customer|they|he|she)?\s*no\s+limit\b
Kw2(t) ==
    LET a == ReWs1(t, ReLit(t, ReB(t, AllPos(t)), K.why))
        b == ReWs1(t, ReAlt(t, a, {K.is, K.am, K.are, K.should}))
        c == b \cup ReAlt(t, b, {K.i, K.we, K.customer, K.they, K.he, K.she})
        d == ReWs1(t, ReLit(t, ReWs0(t, c), K.no))
    IN  ReB(t, ReLit(t, d, K.limit)) # {}

\* [2]: \bloan\s+limit\b
Kw3(t) ==
    ReB(t, ReLit(t, ReWs1(t, ReLit(t, ReB(t, AllPos(t)), K.loan)), K.limit)) # {}

\* [3]: \bnot\s+getting\s+(?:a\s+)?limit\b
Kw4(t) ==
    LET a == ReWs1(t, ReLit(t, ReB(t, AllPos(t)), K.not))
        b == ReWs1(t, ReLit(t, a, K.getting))
        c == b \cup ReWs1(t, ReLit(t, b, K.a))
    IN  ReB(t, ReLit(t, c, K.limit)) # {}

\* [4]: \bcheck\s+eligibility\b
Kw5(t) ==
    ReB(t, ReLit(t, ReWs1(t, ReLit(t, ReB(t, AllPos(t)), K.check)), K.eligibility)) # {}

\* [5]: \blimit\s+allocation\s+failed\b
Kw6(t) ==
    LET a == ReWs1(t, ReLit(t, ReB(t, AllPos(t)), K.limit))
        b == ReWs1(t, ReLit(t, a, K.allocation))
    IN  ReB(t, ReLit(t, b, K.failed)) # {}

\* [6]: \bwhy\s+(?:is|am|are|was)\s+.*?excluded\b
Kw7(t) ==
    LET a == ReWs1(t, ReLit(t, ReB(t, AllPos(t)), K.why))
        b == ReWs1(t, ReAlt(t, a, {K.is, K.am, K.are, K.was}))
    IN  ReB(t, ReLit(t, ReAny(t, b), K.excluded)) # {}

\* [7]: \b(?:customer|account)?\s*excluded\b
Kw8(t) ==
    LET a == ReB(t, AllPos(t))
        b == a \cup ReAlt(t, a, {K.customer, K.account})
    IN  ReB(t, ReLit(t, ReWs0(t, b), K.excluded)) # {}

\* [8]: \blimit\s+issue\b
Kw9(t) ==
    ReB(t, ReLit(t, ReWs1(t, ReLit(t, ReB(t, AllPos(t)), K.limit)), K.issue)) # {}

\* any(pattern.search(message) for pattern in self.patterns)
AnyKeyword(t) ==
    Kw1(t) \/ Kw2(t) \/ Kw3(t) \/ Kw4(t) \/ Kw5(t) \/ Kw6(t) \/ Kw7(t) \/ Kw8(t) \/ Kw9(t)

\* the fewest digits the fallback pattern asks for
FallbackDigits == 9

\* account_number_pattern = \b\d{9,}\b
DigitRunFallback(t) ==
    ReB(t, ReDigitsAtLeast(t, ReB(t, AllPos(t)), FallbackDigits)) # {}

\* str.encode() raises UnicodeEncodeError on a lone surrogate
EncodeRaises(t) == \E i \in 1..Len(t) : t[i] = "uD800"

\* RAGLogger.hash_prompt: the digest stands for the text it was computed from
hash_prompt(t) == PyStr(<<"sha256:">> \o t)

\* IntentDetector.detect
detect(message) ==
    IF NotMessage(message)
    THEN [raised |-> FALSE, is_eligibility_check |-> FALSE, message_hash |-> PyStr(<<>>)]
    ELSE IF EncodeRaises(message.s)
    THEN [raised |-> TRUE, is_eligibility_check |-> FALSE, message_hash |-> PyStr(<<>>)]
    ELSE [raised |-> FALSE,
          is_eligibility_check |-> AnyKeyword(message.s) \/ DigitRunFallback(message.s),
          message_hash |-> hash_prompt(message.s)]

-----------------------------------------------------------------------------
(* Text operations *)

\* the literal texts of the processor: column names, fact names and message parts
\* (warning is the warning sign and its variation selector, then a space)
T == [
    CUSTOMERNAMES |-> <<"C","U","S","T","O","M","E","R","N","A","M","E","S">>,
    Arrears_Days |-> <<"A","r","r","e","a","r","s","_","D","a","y","s">>,
    Credit_Card_OD_Days |-> <<"C","r","e","d","i","t","_","C","a","r","d","_","O","D","_","D","a","y","s">>,
    DPD_Days |-> <<"D","P","D","_","D","a","y","s">>,
    arrears_days |-> <<"a","r","r","e","a","r","s","_","d","a","y","s">>,
    credit_card_od_days |-> <<"c","r","e","d","i","t","_","c","a","r","d","_","o","d","_","d","a","y","s">>,
    dpd_days |-> <<"d","p","d","_","d","a","y","s">>,
    max_dpd_driver |-> <<"m","a","x","_","d","p","d","_","d","r","i","v","e","r">>,
    driver_source |-> <<"d","r","i","v","e","r","_","s","o","u","r","c","e">>,
    max_value |-> <<"m","a","x","_","v","a","l","u","e">>,
    max_field |-> <<"m","a","x","_","f","i","e","l","d">>,
    output |-> <<"o","u","t","p","u","t",":"," ">>,
    Unknown |-> <<"U","n","k","n","o","w","n">>,
    None |-> <<"N","o","n","e">>,
    nan |-> <<"n","a","n">>,
    Evidence |-> <<"E","v","i","d","e","n","c","e",":"," ">>,
    Evidence_missing |-> <<"E","v","i","d","e","n","c","e"," ","m","i","s","s","i","n","g">>,
    Cannot_confirm |-> <<"C","a","n","n","o","t"," ","c","o","n","f","i","r","m"," ">>,
    missing_required |-> <<" ","(","m","i","s","s","i","n","g"," ","r","e","q","u","i","r","e","d"," ","e","v","i","d","e","n","c","e",")",".">>,
    warning |-> <<"u26A0","uFE0F"," ">> ]

DigitSeq == <<"0","1","2","3","4","5","6","7","8","9">>

\* str(n) of an integer
RECURSIVE NatToText(_)
NatToText(n) ==
    IF n < 10 THEN <<DigitSeq[n + 1]>>
    ELSE NatToText(n \div 10) \o <<DigitSeq[(n % 10) + 1]>>

IntToText(n) == IF n < 0 THEN <<"-">> \o NatToText(0 - n) ELSE NatToText(n)

\* str(value)
TextOf(v) ==
    CASE v.k = "str" -> v.s
      [] v.k = "num" -> IntToText(v.n)
      [] v.k = "none" -> T.None
      [] OTHER -> T.nan

\* str.lower()
LowerText(t) == [i \in 1..Len(t) |-> ToLower(t[i])]

\* "{" + name + "}"
Placeholder(name) == <<"{">> \o name \o <<"}">>

\* str.replace(old, new), old not empty: leftmost non-overlapping occurrences
RECURSIVE Replace(_, _, _)
Replace(t, old, new) ==
    IF Len(t) < Len(old) THEN t
    ELSE IF SubSeq(t, 1, Len(old)) = old
         THEN new \o Replace(SubSeq(t, Len(old) + 1, Len(t)), old, new)
         ELSE <<Head(t)>> \o Replace(Tail(t), old, new)

\* old in t
Contains(t, old) ==
    \E i \in 0..(Len(t) - Len(old)) : SubSeq(t, i + 1, i + Len(old)) = old

\* str.strip(chars): drop the characters of a class at both ends
StripIn(t, class) ==
    LET keep == {i \in 1..Len(t) : t[i] \notin class}
    IN  IF keep = {} THEN <<>>
        ELSE SubSeq(t, CHOOSE i \in keep : \A j \in keep : i <= j,
                       CHOOSE i \in keep : \A j \in keep : i >= j)

\* t.split("output: ")[-1]: what follows the last occurrence of the marker
AfterLast(t, marker) ==
    LET at == {i \in 0..(Len(t) - Len(marker)) : SubSeq(t, i + 1, i + Len(marker)) = marker}
        last == CHOOSE i \in at : \A j \in at : i >= j
    IN  SubSeq(t, last + Len(marker) + 1, Len(t))

\* the value of one decimal digit
DigitValue(c) ==
    IF c = "u0663" THEN 3 ELSE (CHOOSE i \in 1..10 : DigitSeq[i] = c) - 1

RECURSIVE DigitsToNat(_)
DigitsToNat(t) ==
    IF t = <<>> THEN 0
    ELSE 10 * DigitsToNat(SubSeq(t, 1, Len(t) - 1)) + DigitValue(t[Len(t)])

\* float(val) inside "try ... except (ValueError, TypeError): val = 0":
\* a number stays, text is parsed (surrounding whitespace ignored, "nan"
\* in any case is NaN, decimal digits are the number), anything else is 0
FloatOrZero(val) ==
    CASE val.k \in {"num", "nan"} -> val
      [] val.k = "str" ->
            LET t == StripIn(val.s, {" ", "NL", "TAB"})
            IN  IF LowerText(t) = T.nan THEN PyNaN
                ELSE IF t # <<>> /\ \A i \in 1..Len(t) : IsReDigit(t[i])
                     THEN PyNum(DigitsToNat(t))
                     ELSE PyNum(0)
      [] OTHER -> PyNum(0)

\* a > b on numbers (false when either side is NaN)
NumGt(a, b) == a.k = "num" /\ b.k = "num" /\ a.n > b.n

\* max(values) on a non-empty list of numbers: the first value no later
\* value is greater than
RECURSIVE PyMaxFrom(_, _)
PyMaxFrom(cur, rest) ==
    IF rest = <<>> THEN cur
    ELSE PyMaxFrom(IF NumGt(Head(rest), cur) THEN Head(rest) ELSE cur, Tail(rest))

PyMax(values) == PyMaxFrom(Head(values), Tail(values))

\* list.index(x): the first position holding x
IndexOf(list, x) == CHOOSE i \in 1..Len(list) : list[i] = x /\ \A j \in 1..(i - 1) : list[j] # x

\* dict.get(key, default)
Get(d, key, default) == IF key \in DOMAIN d THEN d[key] ELSE default

\* {}
EmptyDict == [x \in {} |-> PyNone]

\* the elements of a list
Range(list) == {list[i] : i \in 1..Len(list)}

\* the element of a one-element set: Only({F(x) : x \in {e}}) is F(e) with
\* e evaluated once
Only(S) == CHOOSE x \in S : TRUE

-----------------------------------------------------------------------------
(* DataLoader accessors.  The keys of both indexes are str(cell), the text *)
(* of the key cell; a raw record maps header cells to cell values.         *)

\* the eligible lookup made after the reasons lookup
is_eligible_unless_reasons(account_number) ==
    account_number.s \in eligible_customers /\ account_number.s \notin DOMAIN reasons_file

\* DataLoader.is_eligible

is_eligible(account_number) == account_number.s \in eligible_customers

\* DataLoader.has_ineligibility_reasons
has_ineligibility_reasons(account_number) == account_number.s \in DOMAIN reasons_file

\* DataLoader.get_reasons_record
get_reasons_record(account_number) == reasons_file[account_number.s]

-----------------------------------------------------------------------------
(* EligibilityProcessor *)

\* normalization_rules.get("blank_string_values", ["", " ", None])
BlankValues(catalog) ==
    IF catalog.has_blank_string_values
    THEN catalog.blank_string_values
    ELSE {PyStr(<<>>), PyStr(<<" ">>), PyNone}

\* _normalize_record without its second loop
normalize_record_blanks_only(record, catalog) ==
    [key \in DOMAIN record |->
        IF record[key] \in BlankValues(catalog) THEN PyStr(<<>>) ELSE record[key]]

\* EligibilityProcessor._normalize_record: works on dict(record)
normalize_record(record, catalog) ==
    LET blanked == [key \in DOMAIN record |->
                       IF record[key] \in BlankValues(catalog)
                       THEN PyStr(<<>>) ELSE record[key]]
        numeric == Range(catalog.convert_blanks_to_zero_for_numeric_fields)
    IN  [key \in DOMAIN record |->
            IF key \in numeric /\ blanked[key] = PyStr(<<>>)
            THEN PyNum(0) ELSE blanked[key]]

\* a trigger check that does not look at the trigger type
check_trigger_any_type(trigger, normalized_record) ==
    Get(normalized_record, trigger.check_column, PyNone) = trigger.trigger_value

\* EligibilityProcessor._check_trigger
check_trigger(trigger, normalized_record) ==
    IF trigger.type \in {"check_equals", "check_special_equals"}
    THEN Get(normalized_record, trigger.check_column, PyNone) = trigger.trigger_value
    ELSE FALSE

\* fact.replace("{" + name + "}", str(value[name])) for every name of a
\* dict (the values of the model hold no braces, so the order of the
\* replacements does not show)
RECURSIVE ReplaceEach(_, _, _)
ReplaceEach(t, names, value) ==
    IF names = {} THEN t
    ELSE LET name == CHOOSE x \in names : TRUE
         IN  ReplaceEach(Replace(t, Placeholder(name), TextOf(value[name])),
                         names \ {name}, value)

\* the loop "for req_field in required_facts: if req_field in evidence"
RECURSIVE ReplaceRequired(_, _, _)
ReplaceRequired(t, required, evidence) ==
    IF required = <<>> THEN t
    ELSE ReplaceRequired(
             IF Head(required) \in DOMAIN evidence
             THEN Replace(t, Placeholder(Head(required)), TextOf(evidence[Head(required)]))
             ELSE t,
             Tail(required), evidence)

\* the str keys of a record, by their text
TextKeys(record) == {key.s : key \in {x \in DOMAIN record : x.k = "str"}}

ByText(record) == [name \in TextKeys(record) |-> record[PyStr(name)]]

\* "{" + col + "}" raises TypeError for a header cell that is not a str
HasNonTextKey(record) == \E key \in DOMAIN record : key.k # "str"

\* builder "simple_with_evidence": evidence[col.lower()] = record[col]
EvidenceFromColumns(columns, record) ==
    LET present == {i \in 1..Len(columns) : PyStr(columns[i]) \in DOMAIN record}
        keys == {LowerText(columns[i]) : i \in present}
        last(key) == CHOOSE i \in present :
                        /\ LowerText(columns[i]) = key
                        /\ \A j \in present : LowerText(columns[j]) = key => j <= i
    IN  [key \in keys |-> record[PyStr(columns[last(key)])]]

\* "val = float(val) if val else 0" with its except clause
Coerce(val) == IF Truthy(val) THEN FloatOrZero(val) ELSE PyNum(0)

\* field_mapping.get(name, 0)
FieldMapping(fields, values, name) ==
    LET at == {i \in 1..Len(fields) : fields[i] = PyStr(name)}
    IN  IF at = {} THEN PyNum(0) ELSE values[CHOOSE i \in at : TRUE]

\* builder "max_of_numeric_fields_with_evidence"
MaxWithEvidence(builder, record) ==
    LET fields == builder.fields
        values == [i \in 1..Len(fields) |-> Coerce(Get(record, fields[i], PyNum(0)))]
        max_value == IF values # <<>> THEN PyMax(values) ELSE PyNum(0)
        max_field == IF values # <<>> /\ NumGt(max_value, PyNum(0))
                     THEN fields[IndexOf(values, max_value)].s ELSE <<>>
        arrears == FieldMapping(fields, values, T.Arrears_Days)
        card == FieldMapping(fields, values, T.Credit_Card_OD_Days)
        dpd == FieldMapping(fields, values, T.DPD_Days)
        \* int(x) raises ValueError for NaN
        raised == \E v \in {arrears, card, dpd, max_value} : v.k = "nan"
        evidence == [key \in {T.arrears_days, T.credit_card_od_days, T.dpd_days,
                              T.max_dpd_driver, T.driver_source} |->
                        CASE key = T.arrears_days -> PyNum(arrears.n)
                          [] key = T.credit_card_od_days -> PyNum(card.n)
                          [] key = T.dpd_days -> PyNum(dpd.n)
                          [] key = T.max_dpd_driver -> PyNum(max_value.n)
                          [] OTHER -> PyStr(max_field)]
    IN  IF raised
        THEN [raised |-> TRUE, facts |-> <<>>, evidence |-> EmptyDict]
        ELSE [raised |-> FALSE,
              facts |-> [i \in 1..Len(builder.fact_templates) |->
                            ReplaceEach(builder.fact_templates[i], DOMAIN evidence, evidence)],
              evidence |-> evidence]

\* builder "max_of_numeric_fields": max(values) and "max_value > 0" raise
\* TypeError as soon as one of the raw values is not a number
MaxLegacy(builder, record) ==
    LET fields == builder.fields
        values == [i \in 1..Len(fields) |-> Get(record, fields[i], PyNum(0))]
        raised == values # <<>> /\ \E i \in 1..Len(values) : values[i].k \notin {"num", "nan"}
        max_value == IF values # <<>> THEN PyMax(values) ELSE PyNum(0)
        max_field == IF values # <<>> /\ NumGt(max_value, PyNum(0))
                     THEN fields[IndexOf(values, max_value)].s ELSE <<>>
    IN  IF raised
        THEN [raised |-> TRUE, facts |-> <<>>, evidence |-> EmptyDict]
        ELSE [raised |-> FALSE,
              facts |-> [i \in 1..Len(builder.fact_templates) |->
                            Replace(Replace(builder.fact_templates[i],
                                            Placeholder(T.max_value), TextOf(max_value)),
                                    Placeholder(T.max_field), max_field)],
              evidence |-> EmptyDict]

\* EligibilityProcessor._build_facts followed by the isinstance(dict) split
\* of its caller: the facts, the evidence, and whether it raised
build_facts(reason_config, normalized_record) ==
    LET builder == reason_config.facts_builder
        templates == builder.fact_templates
    IN  CASE builder.type = "simple" ->
               [raised |-> FALSE, facts |-> builder.facts, evidence |-> EmptyDict]
          [] builder.type = "simple_with_evidence" ->
               LET evidence == EvidenceFromColumns(reason_config.evidence_columns,
                                                   normalized_record)
               IN  IF templates # <<>> /\ HasNonTextKey(normalized_record)
                   THEN [raised |-> TRUE, facts |-> <<>>, evidence |-> EmptyDict]
                   ELSE [raised |-> FALSE,
                         facts |-> [i \in 1..Len(templates) |->
                                       ReplaceEach(ReplaceRequired(templates[i],
                                                       reason_config.required_facts, evidence),
                                                   TextKeys(normalized_record),
                                                   ByText(normalized_record))],
                         evidence |-> evidence]
          [] builder.type = "simple_with_parameters" ->
               IF templates # <<>> /\ HasNonTextKey(normalized_record)
               THEN [raised |-> TRUE, facts |-> <<>>, evidence |-> EmptyDict]
               ELSE [raised |-> FALSE,
                     facts |-> [i \in 1..Len(templates) |->
                                   ReplaceEach(templates[i], TextKeys(normalized_record),
                                               ByText(normalized_record))],
                     evidence |-> EmptyDict]
          [] builder.type = "max_of_numeric_fields_with_evidence" ->
               MaxWithEvidence(builder, normalized_record)
          [] builder.type = "max_of_numeric_fields" ->
               MaxLegacy(builder, normalized_record)
          [] OTHER ->
               [raised |-> FALSE, facts |-> <<>>, evidence |-> EmptyDict]

\* config.get(reason_code, {}) on a JSON object: only a str code has an entry
LookupCode(table, code, default) ==
    IF code.k = "str" /\ code.s \in DOMAIN table THEN table[code.s] ELSE default

NoPlaybookEntry ==
    [meaning |-> <<>>, next_steps |-> <<>>, review_type |-> <<>>,
     review_timing |-> <<>>, constraints |-> <<>>]

NoExplanation == [required_facts |-> <<>>, evidence_validation |-> <<>>]

NoDisplayRule ==
    [has_evidence |-> FALSE, has_display_lines |-> FALSE, display_lines |-> <<>>,
     required_fields |-> <<>>, format_template |-> <<>>,
     has_missing_error |-> FALSE, missing_error |-> <<>>]

\* the required names that are absent from the evidence or None in it
MissingIn(required, evidence) ==
    LET elems == Range(required)
    IN  Filter(required, [f \in elems |-> f \notin DOMAIN evidence \/ evidence[f] = PyNone])

\* a display that says nothing when required evidence is missing
build_evidence_display_silent(reason_code, evidence) ==
    LET rule == LookupCode(evidence_display_rules, reason_code, NoDisplayRule)
    IN  IF ~rule.has_evidence
        THEN IF rule.has_display_lines THEN rule.display_lines
             ELSE <<T.Evidence \o TextOf(reason_code)>>
        ELSE IF MissingIn(rule.required_fields, evidence) # <<>>
        THEN <<>>
        ELSE [i \in 1..Len(rule.format_template) |->
                 ReplaceEach(rule.format_template[i], DOMAIN evidence, evidence)]

\* a display that fills the template without looking at the required fields
build_evidence_display_unchecked(reason_code, evidence) ==
    LET rule == LookupCode(evidence_display_rules, reason_code, NoDisplayRule)
    IN  IF ~rule.has_evidence
        THEN IF rule.has_display_lines THEN rule.display_lines
             ELSE <<T.Evidence \o TextOf(reason_code)>>
        ELSE [i \in 1..Len(rule.format_template) |->
                 ReplaceEach(rule.format_template[i], DOMAIN evidence, evidence)]

\* EligibilityProcessor._build_evidence_display
build_evidence_display(reason_code, evidence) ==
    LET rule == LookupCode(evidence_display_rules, reason_code, NoDisplayRule)
    IN  IF ~rule.has_evidence
        THEN IF rule.has_display_lines THEN rule.display_lines
             ELSE <<T.Evidence \o TextOf(reason_code)>>
        ELSE IF MissingIn(rule.required_fields, evidence) # <<>>
        THEN <<T.warning \o (IF rule.has_missing_error THEN rule.missing_error
                             ELSE T.Evidence_missing)>>
        ELSE [i \in 1..Len(rule.format_template) |->
                 ReplaceEach(rule.format_template[i], DOMAIN evidence, evidence)]

\* EligibilityProcessor._get_explanation_validation_error (validation can
\* fail only for a code that has an explanation rule, hence a str code)
get_explanation_validation_error(reason_code, evidence, validation_passed) ==
    LET rule == LookupCode(explanation_playbook, reason_code, NoExplanation)
    IN  IF validation_passed THEN PyNone
        ELSE IF Contains(rule.evidence_validation, T.output)
        THEN PyStr(StripIn(StripIn(AfterLast(rule.evidence_validation, T.output),
                                   {" ", "NL", "TAB"}),
                           {"'", "dquote"}))
        ELSE PyStr(T.Cannot_confirm \o LowerText(reason_code.s) \o T.missing_required)

\* the enrichment without the gate
EnrichAlwaysReady(reason) ==
    LET rule == LookupCode(explanation_playbook, reason.code, NoExplanation)
        missing == MissingIn(rule.required_facts, reason.evidence)
    IN  [code |-> reason.code, meaning |-> reason.meaning, facts |-> reason.facts,
         evidence |-> reason.evidence, next_steps |-> reason.next_steps,
         review_type |-> reason.review_type, review_timing |-> reason.review_timing,
         constraints |-> reason.constraints, evidence_display |-> reason.evidence_display,
         validation_status |-> IF missing = <<>> THEN "passed" ELSE "failed",
         required_facts |-> rule.required_facts,
         missing_facts |-> missing,
         evidence_validation_rule |-> rule.evidence_validation,
         explanation_status |-> "ready",
         explanation_error |-> PyNone]

\* one pass of the loop of EligibilityProcessor._validate_and_enrich_reasons
Enrich(reason) ==
    LET rule == LookupCode(explanation_playbook, reason.code, NoExplanation)
        missing == MissingIn(rule.required_facts, reason.evidence)
        validation_passed == missing = <<>>
    IN  [code |-> reason.code, meaning |-> reason.meaning, facts |-> reason.facts,
         evidence |-> reason.evidence, next_steps |-> reason.next_steps,
         review_type |-> reason.review_type, review_timing |-> reason.review_timing,
         constraints |-> reason.constraints, evidence_display |-> reason.evidence_display,
         validation_status |-> IF validation_passed THEN "passed" ELSE "failed",
         required_facts |-> rule.required_facts,
         missing_facts |-> missing,
         evidence_validation_rule |-> rule.evidence_validation,
         explanation_status |-> IF validation_passed THEN "ready" ELSE "blocked",
         explanation_error |-> get_explanation_validation_error(
                                   reason.code, reason.evidence, validation_passed)]

\* EligibilityProcessor._validate_and_enrich_reasons
validate_and_enrich_reasons(reasons) == [i \in 1..Len(reasons) |-> Enrich(reasons[i])]

\* the reason object built for one triggered rule
ReasonObject(reason_config, built) ==
    LET entry == LookupCode(reason_playbook, reason_config.reason_code, NoPlaybookEntry)
    IN  [code |-> reason_config.reason_code, meaning |-> entry.meaning,
         facts |-> built.facts, evidence |-> built.evidence,
         next_steps |-> entry.next_steps, review_type |-> entry.review_type,
         review_timing |-> entry.review_timing, constraints |-> entry.constraints,
         evidence_display |-> build_evidence_display(reason_config.reason_code,
                                                     built.evidence)]

\* the loop leaving at the first triggered rule
RECURSIVE ExtractLoopFirstOnly(_, _)
ExtractLoopFirstOnly(rules, normalized_record) ==
    IF rules = <<>> THEN [raised |-> FALSE, reasons |-> <<>>]
    ELSE IF ~check_trigger(Head(rules).trigger, normalized_record)
    THEN ExtractLoopFirstOnly(Tail(rules), normalized_record)
    ELSE LET built == build_facts(Head(rules), normalized_record)
         IN  IF built.raised THEN [raised |-> TRUE, reasons |-> <<>>]
             ELSE [raised |-> FALSE, reasons |-> <<ReasonObject(Head(rules), built)>>]

\* the loop over reason_detection_rules["reasons"]: the extracted reasons,
\* or the exception of the first builder that raises
RECURSIVE ExtractLoop(_, _)
ExtractLoop(rules, normalized_record) ==
    IF rules = <<>> THEN [raised |-> FALSE, reasons |-> <<>>]
    ELSE IF ~check_trigger(Head(rules).trigger, normalized_record)
    THEN ExtractLoop(Tail(rules), normalized_record)
    ELSE LET built == build_facts(Head(rules), normalized_record)
             rest == ExtractLoop(Tail(rules), normalized_record)
         IN  IF built.raised \/ rest.raised THEN [raised |-> TRUE, reasons |-> <<>>]
             ELSE [raised |-> FALSE,
                   reasons |-> <<ReasonObject(Head(rules), built)>> \o rest.reasons]

\* reasons_record.get("CUSTOMERNAMES", "Unknown"), "Unknown" when falsy
CustomerName(reasons_record) ==
    LET name == Get(reasons_record, PyStr(T.CUSTOMERNAMES), PyStr(T.Unknown))
    IN  IF Truthy(name) THEN name ELSE PyStr(T.Unknown)

\* EligibilityProcessor._extract_ineligibility_reasons
extract_ineligibility_reasons(account_number, reasons_record, account_hash) ==
    LET normalized_record == normalize_record(reasons_record, checks_catalog)
        extracted == ExtractLoop(reason_detection_rules, normalized_record)
    IN  IF extracted.raised THEN [raised |-> TRUE, result |-> PyNone]
        ELSE [raised |-> FALSE,
              result |-> [account_number |-> account_number,
                          account_number_hash |-> account_hash,
                          customer_name |-> CustomerName(reasons_record),
                          status |-> "NOT_ELIGIBLE",
                          reasons |-> validate_and_enrich_reasons(extracted.reasons)]]

\* EligibilityProcessor._process_single_account
process_single_account(account_number) ==
    LET account_hash == hash_prompt(account_number.s)
        plain(status) == [raised |-> FALSE,
                          result |-> [account_number |-> account_number,
                                      account_number_hash |-> account_hash,
                                      customer_name |-> PyStr(T.Unknown),
                                      status |-> status,
                                      reasons |-> <<>>]]
    IN  IF is_eligible(account_number) THEN plain("ELIGIBLE")
        ELSE IF has_ineligibility_reasons(account_number)
        THEN extract_ineligibility_reasons(account_number,
                 get_reasons_record(account_number), account_hash)
        ELSE plain("CANNOT_CONFIRM")

\* the loop "for account_number in account_numbers" appending to results,
\* or the exception of the first account that raises
RECURSIVE ProcessLoop(_, _)
ProcessLoop(accounts, results) ==
    IF accounts = <<>> THEN [raised |-> FALSE, results |-> results]
    ELSE LET one == process_single_account(Head(accounts))
         IN  IF one.raised THEN [raised |-> TRUE, results |-> <<>>]
             ELSE ProcessLoop(Tail(accounts), Append(results, one.result))

\* a results list that lives on the processor and is never emptied
process_accounts_keeping_results(accounts) ==
    IF accounts = <<>> THEN [raised |-> FALSE, results |-> <<>>]
    ELSE ProcessLoop(accounts,
                     IF "accounts" \in DOMAIN response THEN response.accounts ELSE <<>>)

\* EligibilityProcessor.process_accounts
process_accounts(accounts) ==
    IF accounts = <<>> THEN [raised |-> FALSE, results |-> <<>>]
    ELSE ProcessLoop(accounts, <<>>)

-----------------------------------------------------------------------------
(* LLMPayloadBuilder *)

\* a count that misses one status
CountStatusMissingOne(results, status) ==
    IF status = "CANNOT_CONFIRM" THEN 0
    ELSE Cardinality({i \in 1..Len(results) : results[i].status = status})

\* sum(1 for r in results if r.get("status") == status)
CountStatus(results, status) ==
    Cardinality({i \in 1..Len(results) : results[i].status = status})

\* total_reasons_count += len(reasons)
RECURSIVE TotalReasons(_)
TotalReasons(results) ==
    IF results = <<>> THEN 0
    ELSE Len(Head(results).reasons) + TotalReasons(Tail(results))

\* ready_for_llm_count += reasons with explanation_status == "ready"
RECURSIVE ReadyReasons(_)
ReadyReasons(results) ==
    IF results = <<>> THEN 0
    ELSE Cardinality({i \in 1..Len(Head(results).reasons) :
                         Head(results).reasons[i].explanation_status = "ready"})
         + ReadyReasons(Tail(results))

\* LLMPayloadBuilder._build_empty_payload
build_empty_payload(rid, now) ==
    [request_id |-> rid,
     batch_timestamp |-> now,
     accounts |-> <<>>,
     summary |-> [total_accounts |-> 0, eligible_count |-> 0,
                  not_eligible_count |-> 0, cannot_confirm_count |-> 0,
                  total_reasons_extracted |-> 0, processing_latency_ms |-> 0]]

\* LLMPayloadBuilder.build on a list value or None; now is the clock reading
build(results, rid, latency, now) ==
    IF ~Truthy(results) THEN build_empty_payload(rid, now)
    ELSE [request_id |-> rid,
          batch_timestamp |-> now,
          accounts |-> results.s,
          summary |-> [total_accounts |-> Len(results.s),
                       eligible_count |-> CountStatus(results.s, "ELIGIBLE"),
                       not_eligible_count |-> CountStatus(results.s, "NOT_ELIGIBLE"),
                       cannot_confirm_count |-> CountStatus(results.s, "CANNOT_CONFIRM"),
                       total_reasons_extracted |-> TotalReasons(results.s),
                       reasons_ready_for_llm |-> ReadyReasons(results.s),
                       processing_latency_ms |-> latency]]

-----------------------------------------------------------------------------
(* What a run of the processor leaves behind: the entries handed to        *)
(* RAGLogger.log and the ineligible index.  An entry keeps the event name,  *)
(* the fixed labels (status, exception type), the texts and the hashes put  *)
(* (as sets) put into its message and context, and the counts; timestamps,  *)
(* latencies and the request id are left out.                              *)

Entry(event, labels, texts, hashes, counts) ==
    [event |-> event, labels |-> labels, texts |-> texts, hashes |-> hashes,
     counts |-> counts]

\* str(e) of the exception a facts builder raises
BuilderErrorText(reason_config) ==
    CASE reason_config.facts_builder.type = "max_of_numeric_fields" ->
           <<"'>' not supported between instances of 'str' and 'int'">>
      [] reason_config.facts_builder.type = "max_of_numeric_fields_with_evidence" ->
           <<"cannot convert float NaN to integer">>
      [] OTHER ->
           <<"can only concatenate str (not ", "dquote", "NoneType", "dquote", ") to str">>

\* type(e).__name__ of the exception a facts builder raises
BuilderErrorType(reason_config) ==
    IF reason_config.facts_builder.type = "max_of_numeric_fields_with_evidence"
    THEN "ValueError" ELSE "TypeError"

\* the warning logged by _build_evidence_display when required fields are missing
DisplayEntries(reason_code, evidence) ==
    LET rule == LookupCode(evidence_display_rules, reason_code, NoDisplayRule)
        missing_fields == MissingIn(rule.required_fields, evidence)
    IN  IF rule.has_evidence /\ missing_fields # <<>>
        THEN <<Entry("evidence_display_missing_fields", <<>>,
                     {TextOf(reason_code)} \cup Range(missing_fields), {}, <<>>)>>
        ELSE <<>>

\* the entries of the loop over reason_detection_rules["reasons"], up to the
\* first builder that raises
\* what one triggered rule adds: the exception of its builder, or its
\* entries in front of those of the rules after it
RuleEntries(reason_config, built, rest) ==
    IF built.raised
    THEN [raised |-> TRUE, entries |-> <<>>,
          error |-> BuilderErrorText(reason_config),
          type |-> BuilderErrorType(reason_config)]
    ELSE [raised |-> rest.raised,
          entries |-> DisplayEntries(reason_config.reason_code, built.evidence)
                          \o <<Entry("reason_extracted", <<>>,
                                     {TextOf(reason_config.reason_code)},
                                     {}, <<Len(built.facts)>>)>>
                          \o rest.entries,
          error |-> rest.error, type |-> rest.type]

\* the entries of the loop over reason_detection_rules["reasons"], up to the
\* first builder that raises
RECURSIVE ExtractEntries(_, _)
ExtractEntries(rules, normalized_record) ==
    IF rules = <<>> THEN [raised |-> FALSE, entries |-> <<>>, error |-> <<>>, type |-> ""]
    ELSE IF ~check_trigger(Head(rules).trigger, normalized_record)
    THEN ExtractEntries(Tail(rules), normalized_record)
    ELSE Only({RuleEntries(Head(rules), built, rest) :
                  built \in {build_facts(Head(rules), normalized_record)},
                  rest \in {ExtractEntries(Tail(rules), normalized_record)}})

\* the warnings logged by _validate_and_enrich_reasons
RECURSIVE EnrichEntries(_)
EnrichEntries(reasons) ==
    IF reasons = <<>> THEN <<>>
    ELSE LET reason == Head(reasons)
         IN  (IF reason.validation_status = "failed"
              THEN <<Entry("reason_validation_failed", <<>>,
                           {TextOf(reason.code), TextOf(reason.explanation_error)}
                               \cup Range(reason.missing_facts)
                               \cup DOMAIN reason.evidence,
                           {}, <<>>)>>
              ELSE <<>>) \o EnrichEntries(Tail(reasons))

\* an entry that names the account it is about
AccountProcessedWithNumber(account_number, result) ==
    Entry("account_processed", <<result.status>>, {account_number.s}, {},
          <<Len(result.reasons)>>)

\* the entry "account_processed": status and reason count of the result
AccountProcessed(account_number, result) ==
    Entry("account_processed", <<result.status>>, {}, {}, <<Len(result.reasons)>>)

\* the entries of an account with a row in the ineligible index
ExtractedEntries(account_number, one, extracted) ==
    IF extracted.raised THEN extracted
    ELSE [raised |-> FALSE,
          entries |-> extracted.entries \o EnrichEntries(one.result.reasons)
                          \o <<AccountProcessed(account_number, one.result)>>,
          error |-> <<>>, type |-> ""]

\* the entries of one pass of the loop of process_accounts, given what
\* _process_single_account did
ResultEntries(account_number, one) ==
    IF is_eligible(account_number) \/ ~has_ineligibility_reasons(account_number)
    THEN [raised |-> FALSE, entries |-> <<AccountProcessed(account_number, one.result)>>,
          error |-> <<>>, type |-> ""]
    ELSE Only({ExtractedEntries(account_number, one, extracted) :
                  extracted \in {ExtractEntries(reason_detection_rules,
                                     normalize_record(get_reasons_record(account_number),
                                                      checks_catalog))}})

AccountEntries(account_number) ==
    Only({ResultEntries(account_number, one) :
             one \in {process_single_account(account_number)}})

\* the entries of the loop "for account_number in account_numbers" and the
\* number of accounts it reached, up to the first account that raises
LoopEntries(one, rest) ==
    IF one.raised
    THEN [raised |-> TRUE, entries |-> one.entries, error |-> one.error,
          type |-> one.type, reached |-> 1]
    ELSE [raised |-> rest.raised, entries |-> one.entries \o rest.entries,
          error |-> rest.error, type |-> rest.type, reached |-> 1 + rest.reached]

RECURSIVE AccountsEntries(_)
AccountsEntries(accounts) ==
    IF accounts = <<>>
    THEN [raised |-> FALSE, entries |-> <<>>, error |-> <<>>, type |-> "", reached |-> 0]
    ELSE Only({LoopEntries(one, rest) :
                  one \in {AccountEntries(Head(accounts))},
                  rest \in {AccountsEntries(Tail(accounts))}})

\* the entries around the loop: start, and the summary when it came through
BatchEntries(accounts, looped, results) ==
    [raised |-> looped.raised, error |-> looped.error, type |-> looped.type,
     reached |-> looped.reached,
     entries |-> <<Entry("eligibility_processing_start", <<>>, {}, {}, <<Len(accounts)>>)>>
         \o looped.entries \o
         (IF looped.raised THEN <<>>
          ELSE <<Entry("eligibility_processing_complete", <<>>, {}, {},
                       <<Len(accounts),
                         CountStatus(results, "ELIGIBLE"),
                         CountStatus(results, "NOT_ELIGIBLE"),
                         CountStatus(results, "CANNOT_CONFIRM")>>)>>)]

\* the entries of EligibilityProcessor.process_accounts, which returned
\* results, and the number of accounts its loop reached
process_accounts_entries(accounts, results) ==
    IF accounts = <<>>
    THEN [raised |-> FALSE, error |-> <<>>, type |-> "", reached |-> 0,
          entries |-> <<Entry("eligibility_processing", <<>>, {}, {}, <<0>>)>>]
    ELSE Only({BatchEntries(accounts, looped, results) :
                  looped \in {AccountsEntries(accounts)}})

\* a normalization that writes into the record it was handed
normalize_record_in_place(record, catalog) == normalize_record(record, catalog)

\* the record handed to _normalize_record, as the call leaves it: every
\* write goes to "normalized = dict(record)"
normalize_record_source(record, catalog) == record

\* the ineligible index after process_accounts: the rows of the accounts
\* the loop reached have been through _normalize_record
reasons_file_after_process(accounts, reached) ==
    LET touched == {accounts[i].s : i \in {j \in 1..reached :
                       /\ ~is_eligible(accounts[j])
                       /\ has_ineligibility_reasons(accounts[j])}}
    IN  [key \in DOMAIN reasons_file |->
            IF key \in touched
            THEN normalize_record_source(reasons_file[key], checks_catalog)
            ELSE reasons_file[key]]

\* the entry written by the "except Exception" clause of process_message
ErrorEntry(type, text) == Entry("eligibility_flow_error", <<type>>, {text}, {}, <<>>)

\* str(e) of the UnicodeEncodeError raised by str.encode()
EncodeErrorText(t) ==
    LET at == CHOOSE i \in 1..Len(t) : t[i] = "uD800" /\ \A j \in 1..(i - 1) : t[j] # "uD800"
    IN  <<"'utf-8' codec can't encode character '", "\\", "u", "d", "8", "0", "0",
          "' in position ">> \o NatToText(at - 1) \o <<": surrogates not allowed">>

\* the entries of IntentDetector.detect
detect_entries(message, is_check) ==
    IF NotMessage(message) \/ EncodeRaises(message.s) THEN <<>>
    ELSE <<Entry("intent_detection", <<IF is_check THEN "True" ELSE "False">>,
                 {}, {}, <<>>)>>

\* the entry of AccountExtractor.extract
extract_entries(message, found) ==
    IF NotMessage(message) THEN <<>>
    ELSE <<Entry("account_extraction", <<>>, {}, {}, <<Len(found), Len(message.s)>>)>>

\* the entry of AccountValidator.validate
validate_entries(accounts, checked) ==
    IF ~Truthy(accounts) THEN <<>>
    ELSE <<Entry("account_validation", <<>>, {}, {},
                 <<Len(checked.valid), Len(checked.invalid), Len(accounts.s)>>)>>

\* the entries of LLMPayloadBuilder.build and _validate_payload on results
\* that carry a hash and one of the three statuses
build_entries(results) ==
    IF ~Truthy(results)
    THEN <<Entry("llm_payload_build", <<>>, {}, {}, <<0>>)>>
    ELSE <<Entry("llm_payload_validation_success", <<>>, {}, {}, <<Len(results.s)>>),
           Entry("llm_payload_complete", <<>>, {}, {},
                 <<Len(results.s), TotalReasons(results.s)>>)>>

-----------------------------------------------------------------------------
(* EligibilityOrchestrator *)

\* an exception leaving process_message
PyRaised == [k |-> "exception", n |-> 0, s |-> <<>>]

\* EligibilityOrchestrator._build_error_response; the message is its fixed
\* text and the account numbers joined into it
build_error_response(rid, error_type, error_message) ==
    [request_id |-> rid,
     status |-> "ERROR",
     error_type |-> error_type,
     error_message |-> error_message,
     accounts |-> <<>>,
     summary |-> [total_accounts |-> 0, eligible_count |-> 0,
                  not_eligible_count |-> 0, cannot_confirm_count |-> 0,
                  total_reasons_extracted |-> 0]]

ErrorText(text) == [text |-> text, listed |-> <<>>]

\* a handler that raises again
handle_exception_reraise(rid) == PyRaised

\* the "except Exception" clause of process_message
handle_exception(rid) ==
    build_error_response(rid, "Processing error",
        ErrorText("An error occurred while processing your eligibility check. Please try again."))

IsErrorResponse(r) == "error_type" \in DOMAIN r /\ r.status = "ERROR"

IsPayload(r) == "summary" \in DOMAIN r /\ "error_type" \notin DOMAIN r

StageOrder == <<"intent", "extract", "validate", "process", "build">>

\* the processor latencies a call may measure
Latencies == {0, 7}

-----------------------------------------------------------------------------
(* Inputs: the texts, records and configuration documents the              *)
(* specifications draw from                                                *)

N_Joint_Check == <<"J","o","i","n","t","_","C","h","e","c","k">>

N_Recency_Check == <<"R","e","c","e","n","c","y","_","C","h","e","c","k">>

V_Exclude == <<"E","x","c","l","u","d","e">>

V_Include == <<"I","n","c","l","u","d","e">>

V_N == <<"N">>

V_Y == <<"Y">>

V_abc == <<"a","b","c">>

V_7 == <<"7">>

V_Ann == <<"A","n","n">>

V_x == <<"x">>

CODE_JOINT == <<"J","O","I","N","T","_","A","C","C","O","U","N","T","_","E","X","C","L","U","S","I","O","N">>

CODE_RECENCY == <<"R","E","C","E","N","C","Y","_","E","X","C","L","U","S","I","O","N">>

CODE_DPD == <<"D","P","D","_","A","R","R","E","A","R","S","_","E","X","C","L","U","S","I","O","N">>

CODE_LEGACY == <<"D","P","D","_","L","E","G","A","C","Y">>

CODE_EVID == <<"A","R","R","E","A","R","S","_","E","V","I","D","E","N","C","E">>

CODE_ODD == <<"O","D","D","_","B","U","I","L","D","E","R">>

CODE_OFF == <<"O","D","D","_","T","R","I","G","G","E","R">>

F_joint == <<"J","o","i","n","t"," ","a","c","c","o","u","n","t">>

F_recency == <<"R","e","c","e","n","c","y"," ","{","R","e","c","e","n","c","y","_","C","h","e","c","k","}">>

F_dpd == <<"M","a","x"," ","{","m","a","x","_","d","p","d","_","d","r","i","v","e","r","}"," ","f","r","o","m"," ","{","d","r","i","v","e","r","_","s","o","u","r","c","e","}">>

F_legacy == <<"M","a","x"," ","{","m","a","x","_","v","a","l","u","e","}"," ","{","m","a","x","_","f","i","e","l","d","}">>

F_evid == <<"A","r","r","e","a","r","s"," ","{","a","r","r","e","a","r","s","_","d","a","y","s","}">>

X_dpd == <<"S","T","R","I","C","T"," ","o","u","t","p","u","t",":"," ","'","N","o"," ","D","P","D"," ","e","v","i","d","e","n","c","e",".","'">>

X_evid == <<"n","e","e","d"," ","a","r","r","e","a","r","s">>

X_joint == <<"o","u","t","p","u","t",":"," ","'","x","'">>

N_joint_holder == <<"j","o","i","n","t","_","h","o","l","d","e","r">>

P_meaning == <<"J","o","i","n","t"," ","a","c","c","o","u","n","t">>

P_action == <<"V","i","s","i","t"," ","b","r","a","n","c","h">>

P_owner == <<"C","u","s","t","o","m","e","r">>

P_review == <<"m","a","n","u","a","l">>

P_timing == <<"m","o","n","t","h","l","y">>

D_joint == <<"J","o","i","n","t"," ","a","c","c","o","u","n","t"," ","f","l","a","g">>

D_dpd == <<"D","a","y","s"," ","p","a","s","t"," ","d","u","e",":"," ","{","m","a","x","_","d","p","d","_","d","r","i","v","e","r","}">>

D_missing == <<"D","P","D"," ","e","v","i","d","e","n","c","e"," ","m","i","s","s","i","n","g">>

ACC_A == <<"1","2","3","4","5","6","7","8","9","0">>

ACC_B == <<"0","9","8","7","6","5","4","3","2","1">>

RUN_9 == <<"1","2","3","4","5","6","7","8","9">>

RUN_11 == <<"1","2","3","4","5","6","7","8","9","0","1">>

W_weather == <<"w","e","a","t","h","e","r">>

W_eligible == <<"e","l","i","g","i","b","l","e">>

W_loan_limit == <<"l","o","a","n"," ","l","i","m","i","t">>

W_Eligible == <<"E","L","I","G","I","B","L","E">>

\* ten ARABIC-INDIC digits
ACC_U == [i \in 1..10 |-> "u0663"]

\* ten SUPERSCRIPT TWO characters
TEN_SUP == [i \in 1..10 |-> "u00B2"]

\* a dict from a list of <<key, value>> pairs
MakeDict(pairs) ==
    [key \in {pairs[i][1] : i \in 1..Len(pairs)} |->
        pairs[CHOOSE i \in 1..Len(pairs) : pairs[i][1] = key][2]]

Col(name) == PyStr(name)

\* rows of the ineligible table
R_clean ==
    MakeDict(<< <<Col(T.CUSTOMERNAMES), PyStr(V_Ann)>>,
                <<Col(N_Joint_Check), PyStr(V_Exclude)>>,
                <<Col(N_Recency_Check), PyStr(V_Y)>>,
                <<Col(T.Arrears_Days), PyNum(5)>>,
                <<Col(T.DPD_Days), PyNum(40)>> >>)

R_two ==
    MakeDict(<< <<Col(T.CUSTOMERNAMES), PyStr(<<" ">>)>>,
                <<Col(N_Joint_Check), PyStr(V_Exclude)>>,
                <<Col(N_Recency_Check), PyStr(V_N)>>,
                <<Col(T.Arrears_Days), PyNum(0)>>,
                <<Col(T.DPD_Days), PyNum(0)>> >>)

R_quiet ==
    MakeDict(<< <<Col(T.CUSTOMERNAMES), PyStr(V_Ann)>>,
                <<Col(N_Joint_Check), PyStr(V_Include)>>,
                <<Col(N_Recency_Check), PyStr(V_Y)>>,
                <<Col(T.Arrears_Days), PyNum(5)>>,
                <<Col(T.DPD_Days), PyNum(3)>> >>)

R_text ==
    MakeDict(<< <<Col(T.CUSTOMERNAMES), PyNone>>,
                <<Col(N_Joint_Check), PyStr(V_Exclude)>>,
                <<Col(N_Recency_Check), PyStr(V_N)>>,
                <<Col(T.Arrears_Days), PyStr(V_abc)>>,
                <<Col(T.DPD_Days), PyStr(V_7)>> >>)

R_blank ==
    MakeDict(<< <<Col(N_Joint_Check), PyStr(V_Exclude)>>,
                <<Col(N_Recency_Check), PyStr(<<" ">>)>>,
                <<Col(T.Arrears_Days), PyNone>>,
                <<Col(T.DPD_Days), PyStr(<<>>)>> >>)

R_nan ==
    MakeDict(<< <<Col(N_Joint_Check), PyStr(V_Exclude)>>,
                <<Col(T.Arrears_Days), PyStr(T.nan)>>,
                <<Col(T.DPD_Days), PyNum(5)>> >>)

R_short == MakeDict(<< <<Col(N_Joint_Check), PyStr(V_Exclude)>> >>)

R_header ==
    MakeDict(<< <<Col(N_Joint_Check), PyStr(V_Exclude)>>,
                <<Col(T.Arrears_Days), PyNum(5)>>,
                <<PyNone, PyStr(V_x)>> >>)

Records == {R_clean, R_two, R_quiet, R_text, R_blank, R_nan, R_short, R_header}

\* reason definitions, one per facts-builder kind and trigger kind
Rule(code, ttype, column, value, btype, facts, templates, fields, columns, required) ==
    [reason_code |-> PyStr(code),
     trigger |-> [type |-> ttype, check_column |-> Col(column), trigger_value |-> value],
     facts_builder |-> [type |-> btype, facts |-> facts, fact_templates |-> templates,
                        fields |-> fields],
     evidence_columns |-> columns,
     required_facts |-> required]

RULE_JOINT ==
    Rule(CODE_JOINT, "check_equals", N_Joint_Check, PyStr(V_Exclude),
         "simple", <<F_joint>>, <<>>, <<>>, <<>>, <<>>)

RULE_RECENCY ==
    Rule(CODE_RECENCY, "check_special_equals", N_Recency_Check, PyStr(V_N),
         "simple_with_parameters", <<>>, <<F_recency>>, <<>>, <<>>, <<>>)

RULE_DPD ==
    Rule(CODE_DPD, "check_equals", N_Joint_Check, PyStr(V_Exclude),
         "max_of_numeric_fields_with_evidence", <<>>, <<F_dpd>>,
         <<Col(T.Arrears_Days), Col(T.DPD_Days)>>, <<>>, <<>>)

RULE_LEGACY ==
    Rule(CODE_LEGACY, "check_equals", N_Joint_Check, PyStr(V_Exclude),
         "max_of_numeric_fields", <<>>, <<F_legacy>>,
         <<Col(T.Arrears_Days), Col(T.DPD_Days)>>, <<>>, <<>>)

RULE_EVID ==
    Rule(CODE_EVID, "check_equals", N_Joint_Check, PyStr(V_Exclude),
         "simple_with_evidence", <<>>, <<F_evid>>, <<>>,
         <<T.Arrears_Days>>, <<T.arrears_days>>)

RULE_ODD ==
    Rule(CODE_ODD, "check_equals", N_Recency_Check, PyStr(<<>>),
         "mystery", <<>>, <<>>, <<>>, <<>>, <<>>)

RULE_OFF ==
    Rule(CODE_OFF, "check_between", N_Joint_Check, PyStr(V_Exclude),
         "simple", <<F_joint>>, <<>>, <<>>, <<>>, <<>>)

Rules == {RULE_JOINT, RULE_RECENCY, RULE_DPD, RULE_LEGACY, RULE_EVID, RULE_ODD, RULE_OFF}

\* the lists of at most n elements of a set
RECURSIVE ListsUpTo(_, _)
ListsUpTo(S, n) ==
    IF n = 0 THEN {<<>>}
    ELSE LET shorter == ListsUpTo(S, n - 1)
         IN  shorter \cup {Append(l, x) : l \in shorter, x \in S}

\* checks_catalog["normalization_rules"]
CATALOG_DEFAULT ==
    [has_blank_string_values |-> FALSE, blank_string_values |-> {},
     convert_blanks_to_zero_for_numeric_fields |-> <<Col(T.Arrears_Days), Col(T.DPD_Days)>>]

CATALOG_NARROW ==
    [has_blank_string_values |-> TRUE,
     blank_string_values |-> {PyStr(<<>>), PyStr(<<" ">>)},
     convert_blanks_to_zero_for_numeric_fields |-> <<>>]

\* a catalog that lists sentinels of its own and leaves "" out of them
CATALOG_SENTINEL ==
    [has_blank_string_values |-> TRUE,
     blank_string_values |-> {PyStr(T.nan), PyStr(<<" ">>), PyNone},
     convert_blanks_to_zero_for_numeric_fields |-> <<Col(T.Arrears_Days), Col(T.DPD_Days)>>]

Catalogs == {CATALOG_DEFAULT, CATALOG_NARROW, CATALOG_SENTINEL}

\* reason_playbook["reason_playbook"]
PLAYBOOK ==
    MakeDict(<< <<CODE_JOINT,
                  [meaning |-> P_meaning,
                   next_steps |-> <<[action |-> P_action, owner |-> P_owner]>>,
                   review_type |-> P_review, review_timing |-> P_timing,
                   constraints |-> <<>>]>> >>)

\* explanation_playbook["explanations"]
EXPLAIN_NONE == [x \in {} |-> NoExplanation]

EXPLAIN_EVIDENCE ==
    MakeDict(<< <<CODE_DPD,
                  [required_facts |-> <<T.arrears_days, T.dpd_days, T.max_dpd_driver>>,
                   evidence_validation |-> X_dpd]>>,
                <<CODE_EVID,
                  [required_facts |-> <<T.arrears_days>>,
                   evidence_validation |-> X_evid]>> >>)

EXPLAIN_STRICT ==
    MakeDict(<< <<CODE_JOINT,
                  [required_facts |-> <<N_joint_holder>>,
                   evidence_validation |-> X_joint]>>,
                <<CODE_RECENCY,
                  [required_facts |-> <<>>, evidence_validation |-> <<>>]>> >>)

Explanations == {EXPLAIN_NONE, EXPLAIN_EVIDENCE, EXPLAIN_STRICT}

\* evidence_display_rules["display_rules"]
DISPLAY ==
    MakeDict(<< <<CODE_JOINT,
                  [has_evidence |-> FALSE, has_display_lines |-> TRUE,
                   display_lines |-> <<D_joint>>, required_fields |-> <<>>,
                   format_template |-> <<>>, has_missing_error |-> FALSE,
                   missing_error |-> <<>>]>>,
                <<CODE_DPD,
                  [has_evidence |-> TRUE, has_display_lines |-> FALSE,
                   display_lines |-> <<>>, required_fields |-> <<T.max_dpd_driver>>,
                   format_template |-> <<D_dpd>>, has_missing_error |-> TRUE,
                   missing_error |-> D_missing]>>,
                <<CODE_EVID,
                  [has_evidence |-> TRUE, has_display_lines |-> FALSE,
                   display_lines |-> <<>>, required_fields |-> <<T.arrears_days>>,
                   format_template |-> <<D_dpd>>, has_missing_error |-> FALSE,
                   missing_error |-> <<>>]>>,
                <<CODE_LEGACY,
                  [has_evidence |-> TRUE, has_display_lines |-> FALSE,
                   display_lines |-> <<>>, required_fields |-> <<>>,
                   format_template |-> <<>>, has_missing_error |-> FALSE,
                   missing_error |-> <<>>]>>,
                <<CODE_RECENCY,
                  [has_evidence |-> TRUE, has_display_lines |-> FALSE,
                   display_lines |-> <<>>, required_fields |-> <<T.dpd_days>>,
                   format_template |-> <<D_dpd>>, has_missing_error |-> TRUE,
                   missing_error |-> D_missing]>> >>)

\* the ineligible index: nothing, a row for the first account, or rows for both
NoRows == [x \in {} |-> R_clean]

ReasonsFiles(rows) ==
    {NoRows} \cup {MakeDict(<< <<ACC_A, r>> >>) : r \in rows}
             \cup {MakeDict(<< <<ACC_A, r>>, <<ACC_B, R_two>> >>) : r \in rows}

-----------------------------------------------------------------------------
(* process_message, stage by stage *)

\* the messages of the pipeline specification
Messages ==
    {PyNone,
     PyStr(<<>>),
     PyStr(<<" ", "NL", "TAB">>),
     PyStr(W_weather),
     PyStr(W_eligible),
     PyStr(RUN_9),
     PyStr(W_Eligible \o <<" ">> \o ACC_A \o <<"?">>),
     PyStr(ACC_B \o <<",">> \o ACC_A \o <<" ">> \o ACC_B),
     PyStr(W_loan_limit \o <<" ">> \o ACC_U),
     PyStr(<<"uD800", " ">> \o W_eligible \o <<" ">> \o ACC_A),
     PyStr(W_weather \o <<" ">> \o RUN_11),
     PyStr(<<"uD800", " ">> \o RUN_9)}

\* the locals of a call before any stage has assigned them
FreshLocals ==
    /\ is_eligibility_check' = FALSE
    /\ account_numbers' = <<>>
    /\ valid_accounts' = <<>>
    /\ invalid_accounts' = <<>>
    /\ eligibility_results' = <<>>
    /\ processor_latency' = 0

\* a caller invokes EligibilityOrchestrator().process_message(m): the
\* constructor returns the singleton, then request id and start of the flow
Call(m) ==
    /\ pc \in {"idle", "done"}
    /\ orchestrator.initialized
    /\ calls < MaxCalls
    /\ calls' = calls + 1
    /\ request_id' = calls + 1
    /\ user_message' = m
    /\ prev_message' = user_message
    /\ prev_response' = response
    /\ stages' = <<>>
    /\ log' = <<Entry("eligibility_flow_start", <<>>, {}, {}, <<>>)>>
    /\ outcome' = [op |-> "process_message", raised |-> FALSE]
    /\ pc' = "intent"
    /\ FreshLocals
    /\ UNCHANGED <<stores, files, config_loader, data_loader, orchestrator, response>>

\* a call with any message of the pipeline specification
StartCall == \E m \in Messages : Call(m)

\* STEP 1: intent detection; an orchestrator whose constructor never got
\* past its loaders has no intent_detector attribute
IntentStep ==
    /\ pc = "intent"
    /\ stages' = Append(stages, "intent")
    /\ \E detected \in {detect(user_message)} :
           IF ~orchestrator.ready
           THEN /\ response' = handle_exception(request_id)
                /\ log' = Append(log, ErrorEntry("AttributeError",
                              <<"'EligibilityOrchestrator' object has no attribute 'intent_detector'">>))
                /\ pc' = "done"
                /\ UNCHANGED is_eligibility_check
           ELSE IF detected.raised
           THEN /\ response' = handle_exception(request_id)
                /\ log' = Append(log, ErrorEntry("UnicodeEncodeError",
                                                 EncodeErrorText(user_message.s)))
                /\ pc' = "done"
                /\ UNCHANGED is_eligibility_check
           ELSE /\ is_eligibility_check' = detected.is_eligibility_check
                /\ log' = log \o detect_entries(user_message, detected.is_eligibility_check)
                              \o <<IF detected.is_eligibility_check
                                   THEN Entry("intent_eligibility_detected", <<>>, {}, {}, <<>>)
                                   ELSE Entry("intent_not_eligibility", <<>>, {},
                                              {detected.message_hash}, <<>>)>>
                /\ IF detected.is_eligibility_check
                   THEN pc' = "extract" /\ UNCHANGED response
                   ELSE pc' = "done" /\ response' = PyNone
    /\ UNCHANGED <<stores, startup, user_message, request_id, account_numbers, valid_accounts,
                   invalid_accounts, eligibility_results, processor_latency, calls,
                   prev_message, prev_response>>

\* STEP 2: account extraction
ExtractStep ==
    /\ pc = "extract"
    /\ stages' = Append(stages, "extract")
    /\ \E extracted \in {extract(user_message)} :
           /\ account_numbers' = extracted
           /\ IF extracted = <<>>
              THEN /\ response' = build_error_response(request_id,
                                      "No account numbers found",
                                      ErrorText("Please share the 10-digit account number(s) so I can confirm eligibility."))
                   /\ log' = log \o extract_entries(user_message, extracted)
                                 \o <<Entry("no_accounts_extracted", <<>>, {}, {}, <<>>)>>
                   /\ pc' = "done"
              ELSE /\ log' = log \o extract_entries(user_message, extracted)
                                 \o <<Entry("accounts_extracted", <<>>, {}, {},
                                            <<Len(extracted)>>)>>
                   /\ pc' = "validate"
                   /\ UNCHANGED response
    /\ UNCHANGED <<stores, startup, user_message, request_id, is_eligibility_check, valid_accounts,
                   invalid_accounts, eligibility_results, processor_latency, calls,
                   prev_message, prev_response>>

\* STEP 3: account validation
ValidateStep ==
    /\ pc = "validate"
    /\ stages' = Append(stages, "validate")
    /\ \E checked \in {validate(PyList(account_numbers))} :
           /\ valid_accounts' = checked.valid
           /\ invalid_accounts' = checked.invalid
           /\ IF checked.valid = <<>>
              THEN /\ response' = build_error_response(request_id, "Invalid account numbers",
                       [text |-> "The following account numbers are invalid: . Account numbers must be exactly 10 digits.",
                        listed |-> checked.invalid])
                   /\ log' = log \o validate_entries(PyList(account_numbers), checked)
                                 \o <<Entry("no_valid_accounts", <<>>, {}, {},
                                            <<Len(checked.invalid)>>)>>
                   /\ pc' = "done"
              ELSE /\ log' = log \o validate_entries(PyList(account_numbers), checked)
                                 \o (IF checked.invalid # <<>>
                                     THEN <<Entry("some_accounts_invalid", <<>>, {}, {},
                                                  <<Len(checked.valid), Len(checked.invalid)>>)>>
                                     ELSE <<>>)
                                 \o <<Entry("accounts_validated", <<>>, {}, {},
                                            <<Len(checked.valid), Len(checked.invalid)>>)>>
                   /\ pc' = "process"
                   /\ UNCHANGED response
    /\ UNCHANGED <<stores, startup, user_message, request_id, is_eligibility_check, account_numbers,
                   eligibility_results, processor_latency, calls, prev_message,
                   prev_response>>

\* STEP 4: eligibility processing
ProcessStep ==
    /\ pc = "process"
    /\ stages' = Append(stages, "process")
    /\ \E processed \in {process_accounts(valid_accounts)} :
       \E written \in {process_accounts_entries(valid_accounts, processed.results)} :
        /\ reasons_file' = reasons_file_after_process(valid_accounts, written.reached)
        /\ IF processed.raised
           THEN /\ response' = handle_exception(request_id)
                /\ log' = log \o written.entries
                              \o <<ErrorEntry(written.type, written.error)>>
                /\ pc' = "done"
                /\ UNCHANGED <<eligibility_results, processor_latency>>
           ELSE /\ eligibility_results' = processed.results
                /\ \E latency \in Latencies : processor_latency' = latency
                /\ IF processed.results = <<>>
                   THEN /\ response' = build_error_response(request_id, "Processing failed",
                            ErrorText("Unable to process eligibility check. Please try again."))
                        /\ log' = log \o written.entries
                                      \o <<Entry("processor_no_results", <<>>, {}, {}, <<>>)>>
                        /\ pc' = "done"
                   ELSE /\ log' = log \o written.entries
                                      \o <<Entry("eligibility_results_ready", <<>>, {}, {},
                                                 <<Len(processed.results)>>)>>
                        /\ pc' = "build"
                        /\ UNCHANGED response
    /\ UNCHANGED <<lookups, startup, user_message, request_id, is_eligibility_check,
                   account_numbers, valid_accounts, invalid_accounts, calls, prev_message,
                   prev_response>>

\* STEP 5: payload building and return
BuildStep ==
    /\ pc = "build"
    /\ stages' = Append(stages, "build")
    /\ response' = build(PyList(eligibility_results), request_id, processor_latency, calls)
    /\ log' = log \o build_entries(PyList(eligibility_results))
                  \o <<Entry("eligibility_flow_complete", <<>>, {}, {},
                             <<Len(eligibility_results)>>)>>
    /\ pc' = "done"
    /\ UNCHANGED <<stores, startup, user_message, request_id, is_eligibility_check, account_numbers,
                   valid_accounts, invalid_accounts, eligibility_results,
                   processor_latency, calls, prev_message, prev_response>>

\* the stores of the pipeline specification
InitStoresPipeline ==
    /\ eligible_customers \in {{}, {ACC_A}}
    /\ reasons_file \in ReasonsFiles({R_clean, R_text})
    /\ checks_catalog = CATALOG_DEFAULT
    /\ reason_detection_rules \in {<<RULE_JOINT, RULE_DPD>>, <<RULE_RECENCY, RULE_LEGACY>>,
                                   <<RULE_JOINT, RULE_EVID>>}
    /\ reason_playbook = PLAYBOOK
    /\ explanation_playbook \in {EXPLAIN_EVIDENCE, EXPLAIN_STRICT}
    /\ evidence_display_rules = DISPLAY

\* the files in the order _load_all_configs and _load_all_data read them
ConfigDocs ==
    <<"checks_catalog.json", "reason_detection_rules.json", "reason_playbook.json",
      "explanation_playbook.json", "evidence_display_rules.json">>

DataDocs == <<"eligible_customers.xlsx", "reasons_file.xlsx">>

\* a singleton whose __new__ and __init__ have run
Constructed == [instance |-> TRUE, initialized |-> TRUE]

\* the state after EligibilityOrchestrator() returned, before the first call
InitCall ==
    /\ user_message = PyNone
    /\ request_id = 0
    /\ is_eligibility_check = FALSE
    /\ account_numbers = <<>>
    /\ valid_accounts = <<>>
    /\ invalid_accounts = <<>>
    /\ eligibility_results = <<>>
    /\ processor_latency = 0
    /\ response = PyNone
    /\ stages = <<>>
    /\ calls = 0
    /\ prev_message = PyNone
    /\ prev_response = PyNone
    /\ log = <<>>
    /\ files = [d \in Range(ConfigDocs) \cup Range(DataDocs) |-> "ok"]
    /\ config_loader = Constructed
    /\ data_loader = Constructed
    /\ orchestrator = [instance |-> TRUE, initialized |-> TRUE, ready |-> TRUE]
    /\ outcome = [op |-> "EligibilityOrchestrator", raised |-> FALSE]

Init == InitStoresPipeline /\ InitCall /\ pc = "idle"

Next == StartCall \/ IntentStep \/ ExtractStep \/ ValidateStep \/ ProcessStep \/ BuildStep

Spec == Init /\ [][Next]_vars

-----------------------------------------------------------------------------
(* AccountExtractor.extract on its own *)

Segments ==
    {ACC_A, ACC_B, RUN_9, <<"5">>, <<" ">>, <<"a">>, <<"_">>, <<".">>,
     <<"u0663">>, <<"u00B2">>}

\* the texts made of at most n segments
RECURSIVE SegmentTexts(_)
SegmentTexts(n) ==
    IF n = 0 THEN {<<>>}
    ELSE LET shorter == SegmentTexts(n - 1)
         IN  shorter \cup {t \o s : t \in shorter, s \in Segments}

InitStoresEmpty ==
    /\ eligible_customers = {}
    /\ reasons_file = NoRows
    /\ checks_catalog = CATALOG_DEFAULT
    /\ reason_detection_rules = <<>>
    /\ reason_playbook = PLAYBOOK
    /\ explanation_playbook = EXPLAIN_NONE
    /\ evidence_display_rules = DISPLAY

InitExtract ==
    /\ InitStoresEmpty
    /\ InitCall
    /\ pc = "extract_ready"

ExtractorCall ==
    /\ pc = "extract_ready"
    /\ \E t \in SegmentTexts(MaxSegs) :
          /\ user_message' = PyStr(t)
          /\ \E found \in {extract(PyStr(t))} :
                 /\ account_numbers' = found
                 /\ log' = extract_entries(PyStr(t), found)
    /\ pc' = "extract_done"
    /\ UNCHANGED <<stores, startup, request_id, is_eligibility_check, valid_accounts,
                   invalid_accounts, eligibility_results, processor_latency, response,
                   stages, calls, prev_message, prev_response>>

NextExtract == ExtractorCall

SpecExtract == InitExtract /\ [][NextExtract]_vars

-----------------------------------------------------------------------------
(* AccountValidator.validate on its own *)

ValidatorElements ==
    {PyStr(ACC_A), PyStr(ACC_B), PyStr(RUN_9), PyStr(RUN_11), PyStr(ACC_U),
     PyStr(TEN_SUP), PyStr(<<>>), PyStr(RUN_9 \o <<" ">>), PyStr(RUN_9 \o <<".">>),
     PyNone, PyNum(1234567890)}

InitValidate ==
    /\ InitStoresEmpty
    /\ InitCall
    /\ pc = "validate_ready"

ValidatorCall ==
    /\ pc = "validate_ready"
    /\ \E input \in {PyNone} \cup {PyList(l) : l \in ListsUpTo(ValidatorElements, MaxList)} :
          /\ account_numbers' = input
          /\ \E checked \in {validate(input)} :
                 /\ valid_accounts' = checked.valid
                 /\ invalid_accounts' = checked.invalid
                 /\ log' = validate_entries(input, checked)
    /\ pc' = "validate_done"
    /\ UNCHANGED <<stores, startup, user_message, request_id, is_eligibility_check,
                   eligibility_results, processor_latency, response, stages, calls,
                   prev_message, prev_response>>

NextValidate == ValidatorCall

SpecValidate == InitValidate /\ [][NextValidate]_vars

-----------------------------------------------------------------------------
(* EligibilityProcessor.process_accounts on its own *)

InitEngine ==
    /\ eligible_customers \in {{}, {ACC_A}}
    /\ reasons_file \in ReasonsFiles(Records)
    /\ checks_catalog \in Catalogs
    /\ reason_detection_rules \in ListsUpTo(Rules, MaxRules)
    /\ reason_playbook = PLAYBOOK
    /\ explanation_playbook \in Explanations
    /\ evidence_display_rules = DISPLAY
    /\ InitCall
    /\ pc = "engine_ready"

EngineInputs == {<<PyStr(ACC_A)>>, <<PyStr(ACC_B), PyStr(ACC_A)>>}

EngineCall ==
    /\ pc = "engine_ready"
    /\ \E accounts \in EngineInputs :
          \E processed \in {process_accounts(accounts)} :
          \E written \in {process_accounts_entries(accounts, processed.results)} :
              /\ valid_accounts' = accounts
              /\ eligibility_results' = processed.results
              /\ reasons_file' = reasons_file_after_process(accounts, written.reached)
              /\ log' = written.entries
              /\ pc' = IF processed.raised THEN "engine_raised" ELSE "engine_done"
    /\ UNCHANGED <<lookups, startup, user_message, request_id, is_eligibility_check, account_numbers,
                   invalid_accounts, processor_latency, response, stages, calls,
                   prev_message, prev_response>>

NextEngine == EngineCall

SpecEngine == InitEngine /\ [][NextEngine]_vars

-----------------------------------------------------------------------------
(* Construction of the singletons: ConfigLoader, DataLoader and            *)
(* EligibilityOrchestrator                                                 *)

\* the most files that are missing or malformed in one behaviour
MaxBadFiles == 1

\* a singleton class before its first construction
NotConstructed == [instance |-> FALSE, initialized |-> FALSE]

\* the caches as __init__ assigns them before loading: empty dicts
EmptyCaches ==
    [checks_catalog |-> [has_blank_string_values |-> FALSE, blank_string_values |-> {},
                         convert_blanks_to_zero_for_numeric_fields |-> <<>>],
     reason_detection_rules |-> <<>>,
     reason_playbook |-> [x \in {} |-> NoPlaybookEntry],
     explanation_playbook |-> EXPLAIN_NONE,
     evidence_display_rules |-> [x \in {} |-> NoDisplayRule],
     eligible_customers |-> {},
     reasons_file |-> NoRows]

\* the content of the seven files when they are well-formed
OnDisk ==
    [checks_catalog |-> CATALOG_DEFAULT,
     reason_detection_rules |-> <<RULE_JOINT, RULE_DPD>>,
     reason_playbook |-> PLAYBOOK,
     explanation_playbook |-> EXPLAIN_EVIDENCE,
     evidence_display_rules |-> DISPLAY,
     eligible_customers |-> {ACC_B},
     reasons_file |-> MakeDict(<< <<ACC_A, R_clean>> >>)]

\* the number of files read before the first that is missing or malformed
RECURSIVE LeadingOk(_)
LeadingOk(docs) ==
    IF docs = <<>> \/ files[Head(docs)] # "ok" THEN 0
    ELSE 1 + LeadingOk(Tail(docs))

\* the i-th cache after a load that read the first n files
Cached(name, i, n) == IF i <= n THEN OnDisk[name] ELSE EmptyCaches[name]

\* ConfigLoader(): __new__ returns the one instance; __init__ returns at once
\* when _initialized is set, else sets it, empties the caches and loads the
\* five files in order, raising at the first that fails
ConfigLoaderCall ==
    IF config_loader.initialized
    THEN [raised |-> FALSE, loader |-> [instance |-> TRUE, initialized |-> TRUE],
          checks_catalog |-> checks_catalog,
          reason_detection_rules |-> reason_detection_rules,
          reason_playbook |-> reason_playbook,
          explanation_playbook |-> explanation_playbook,
          evidence_display_rules |-> evidence_display_rules]
    ELSE LET n == LeadingOk(ConfigDocs)
         IN  [raised |-> n < Len(ConfigDocs),
              loader |-> [instance |-> TRUE, initialized |-> TRUE],
              checks_catalog |-> Cached("checks_catalog", 1, n),
              reason_detection_rules |-> Cached("reason_detection_rules", 2, n),
              reason_playbook |-> Cached("reason_playbook", 3, n),
              explanation_playbook |-> Cached("explanation_playbook", 4, n),
              evidence_display_rules |-> Cached("evidence_display_rules", 5, n)]

\* DataLoader(): the same pattern over the two data files
DataLoaderCall ==
    IF data_loader.initialized
    THEN [raised |-> FALSE, loader |-> [instance |-> TRUE, initialized |-> TRUE],
          eligible_customers |-> eligible_customers, reasons_file |-> reasons_file]
    ELSE LET n == LeadingOk(DataDocs)
         IN  [raised |-> n < Len(DataDocs),
              loader |-> [instance |-> TRUE, initialized |-> TRUE],
              eligible_customers |-> Cached("eligible_customers", 1, n),
              reasons_file |-> Cached("reasons_file", 2, n)]

\* the state a ConfigLoader() call leaves
ConfigLoaderEffect(called) ==
    /\ config_loader' = called.loader
    /\ checks_catalog' = called.checks_catalog
    /\ reason_detection_rules' = called.reason_detection_rules
    /\ reason_playbook' = called.reason_playbook
    /\ explanation_playbook' = called.explanation_playbook
    /\ evidence_display_rules' = called.evidence_display_rules

\* the state a DataLoader() call leaves
DataLoaderEffect(called) ==
    /\ data_loader' = called.loader
    /\ eligible_customers' = called.eligible_customers
    /\ reasons_file' = called.reasons_file

config_caches == <<checks_catalog, reason_detection_rules, reason_playbook,
                   explanation_playbook, evidence_display_rules>>

data_caches == <<eligible_customers, reasons_file>>

call_locals == <<user_message, request_id, is_eligibility_check, account_numbers,
                 valid_accounts, invalid_accounts, eligibility_results,
                 processor_latency, response, stages, calls, prev_message,
                 prev_response, log>>

\* a caller evaluates ConfigLoader()
NewConfigLoader ==
    /\ pc \in {"idle", "done"}
    /\ \E called \in {ConfigLoaderCall} :
          /\ ConfigLoaderEffect(called)
          /\ outcome' = [op |-> "ConfigLoader", raised |-> called.raised]
    /\ UNCHANGED <<data_caches, data_loader, orchestrator, files, pc, call_locals>>

\* a caller evaluates DataLoader()
NewDataLoader ==
    /\ pc \in {"idle", "done"}
    /\ \E called \in {DataLoaderCall} :
          /\ DataLoaderEffect(called)
          /\ outcome' = [op |-> "DataLoader", raised |-> called.raised]
    /\ UNCHANGED <<config_caches, config_loader, orchestrator, files, pc, call_locals>>

\* a caller evaluates EligibilityOrchestrator(): __init__ returns at once when
\* _initialized is set, else sets it and builds the components inside its
\* try; DataLoader() is reached only when ConfigLoader() returned, and the
\* later components only when both did
NewOrchestrator ==
    /\ pc \in {"idle", "done"}
    /\ IF orchestrator.initialized
       THEN /\ outcome' = [op |-> "EligibilityOrchestrator", raised |-> FALSE]
            /\ UNCHANGED <<stores, config_loader, data_loader, orchestrator>>
       ELSE \E config \in {ConfigLoaderCall}, data \in {DataLoaderCall} :
               /\ ConfigLoaderEffect(config)
               /\ IF config.raised
                  THEN UNCHANGED <<data_caches, data_loader>>
                  ELSE DataLoaderEffect(data)
               /\ orchestrator' = [instance |-> TRUE, initialized |-> TRUE,
                                   ready |-> ~config.raised /\ ~data.raised]
               /\ outcome' = [op |-> "EligibilityOrchestrator",
                              raised |-> config.raised \/ data.raised]
    /\ UNCHANGED <<files, pc, call_locals>>

\* a caller evaluates ConfigLoader().get_all_configs() once the class has
\* been through __init__
GetConfigs ==
    /\ pc \in {"idle", "done"}
    /\ config_loader.initialized
    /\ outcome' = [op |-> "get_all_configs", raised |-> FALSE]
    /\ UNCHANGED <<stores, files, config_loader, data_loader, orchestrator, pc,
                   call_locals>>

\* a caller evaluates DataLoader().get_data_summary() once the class has been
\* through __init__
GetDataSummary ==
    /\ pc \in {"idle", "done"}
    /\ data_loader.initialized
    /\ outcome' = [op |-> "get_data_summary", raised |-> FALSE]
    /\ UNCHANGED <<stores, files, config_loader, data_loader, orchestrator, pc,
                   call_locals>>

\* the files on disk: at most MaxBadFiles of them missing or malformed
FileStates ==
    {f \in [Range(ConfigDocs) \cup Range(DataDocs) -> {"ok", "missing", "malformed"}] :
        Cardinality({d \in DOMAIN f : f[d] # "ok"}) <= MaxBadFiles}

\* the message of the calls made after start-up
StartupMessage == PyStr(W_Eligible \o <<" ">> \o ACC_A \o <<"?">>)

\* a caller invokes EligibilityOrchestrator().process_message after start-up
StartupCall == Call(StartupMessage)

\* the process before any class was constructed
InitStartup ==
    /\ files \in FileStates
    /\ checks_catalog = EmptyCaches.checks_catalog
    /\ reason_detection_rules = EmptyCaches.reason_detection_rules
    /\ reason_playbook = EmptyCaches.reason_playbook
    /\ explanation_playbook = EmptyCaches.explanation_playbook
    /\ evidence_display_rules = EmptyCaches.evidence_display_rules
    /\ eligible_customers = EmptyCaches.eligible_customers
    /\ reasons_file = EmptyCaches.reasons_file
    /\ config_loader = NotConstructed
    /\ data_loader = NotConstructed
    /\ orchestrator = [instance |-> FALSE, initialized |-> FALSE, ready |-> FALSE]
    /\ outcome = [op |-> "none", raised |-> FALSE]
    /\ user_message = PyNone
    /\ request_id = 0
    /\ is_eligibility_check = FALSE
    /\ account_numbers = <<>>
    /\ valid_accounts = <<>>
    /\ invalid_accounts = <<>>
    /\ eligibility_results = <<>>
    /\ processor_latency = 0
    /\ response = PyNone
    /\ stages = <<>>
    /\ calls = 0
    /\ prev_message = PyNone
    /\ prev_response = PyNone
    /\ log = <<>>
    /\ pc = "idle"

NextStartup ==
    \/ NewConfigLoader \/ NewDataLoader \/ NewOrchestrator
    \/ GetConfigs \/ GetDataSummary
    \/ StartupCall \/ IntentStep \/ ExtractStep \/ ValidateStep \/ ProcessStep \/ BuildStep

SpecStartup == InitStartup /\ [][NextStartup]_vars

-----------------------------------------------------------------------------
(* Properties of start-up *)

AllOk(docs) == \A i \in 1..Len(docs) : files[docs[i]] = "ok"

\* C12: with a configuration or data file missing or malformed, every
\* construction of ConfigLoader, DataLoader and EligibilityOrchestrator
\* raises, the first and every later one, so no accessor returns and no
\* process_message call reaches the engine over a store whose load failed
C12_FailFastEveryTime ==
    /\ (outcome.op \in {"ConfigLoader", "get_all_configs"} /\ ~outcome.raised)
           => AllOk(ConfigDocs)
    /\ (outcome.op \in {"DataLoader", "get_data_summary"} /\ ~outcome.raised)
           => AllOk(DataDocs)
    /\ (outcome.op = "EligibilityOrchestrator" /\ ~outcome.raised)
           => AllOk(ConfigDocs \o DataDocs)
    /\ (\E i \in 1..Len(stages) : stages[i] = "process")
           => AllOk(ConfigDocs \o DataDocs)

-----------------------------------------------------------------------------
(* Properties of process_message *)

\* the response is the error payload of the given type
ErrorOfType(r, error_type) == IsErrorResponse(r) /\ r.error_type = error_type

\* the first n stages of the fixed order
StagePrefix(n) == SubSeq(StageOrder, 1, n)

\* C1: process_message is total. Whatever the message (None, empty, text
\* that is not an eligibility question, text of any shape) and whichever
\* stage raises, a finished call has handed its caller None, a success
\* payload or an error payload, and no exception has left the call.
C1_ProcessMessageTotal ==
    pc = "done" =>
        /\ response # PyRaised
        /\ \/ response = PyNone
           \/ IsPayload(response)
           \/ IsErrorResponse(response)

\* C1 witness: a call whose processing stage raised has returned the
\* generic error payload
C1_Witness ==
    /\ pc = "done"
    /\ stages = StagePrefix(4)
    /\ process_accounts(valid_accounts).raised
    /\ ErrorOfType(response, "Processing error")

\* the five outcomes of the short-circuit chain, each with the condition
\* that selects it and the stages that have then run
ShortCircuitOutcome ==
    \/ /\ stages = StagePrefix(1)
       /\ ~is_eligibility_check
       /\ response = PyNone
    \/ /\ stages = StagePrefix(2)
       /\ is_eligibility_check
       /\ account_numbers = <<>>
       /\ ErrorOfType(response, "No account numbers found")
    \/ /\ stages = StagePrefix(3)
       /\ is_eligibility_check
       /\ account_numbers # <<>>
       /\ valid_accounts = <<>>
       /\ ErrorOfType(response, "Invalid account numbers")
    \/ /\ stages = StagePrefix(4)
       /\ is_eligibility_check
       /\ account_numbers # <<>>
       /\ valid_accounts # <<>>
       /\ eligibility_results = <<>>
       /\ ErrorOfType(response, "Processing failed")
    \/ /\ stages = StageOrder
       /\ is_eligibility_check
       /\ account_numbers # <<>>
       /\ valid_accounts # <<>>
       /\ eligibility_results # <<>>
       /\ response = build(PyList(eligibility_results), request_id, processor_latency,
                           calls)

\* C2: the stages run in the fixed order intent, extract,
\* validate, process, build, and the first short-circuit condition that
\* holds decides the outcome (None, 'No account numbers found', 'Invalid
\* account numbers', 'Processing failed', else the built payload); no later
\* stage runs after a short-circuit and none is skipped or revisited.
C2_FiveOutcomesOnly ==
    /\ \E n \in 0..Len(StageOrder) : stages = StagePrefix(n)
    /\ pc = "done" => ShortCircuitOutcome

SameContent(a, b) ==
    \/ a = PyNone /\ b = PyNone
    \/ /\ IsErrorResponse(a) /\ IsErrorResponse(b)
       /\ a.error_type = b.error_type
       /\ a.error_message = b.error_message
       /\ a.accounts = b.accounts
       /\ a.summary = b.summary
    \/ /\ IsPayload(a) /\ IsPayload(b)
       /\ a.accounts = b.accounts
       /\ [a.summary EXCEPT !.processing_latency_ms = 0]
             = [b.summary EXCEPT !.processing_latency_ms = 0]

-----------------------------------------------------------------------------
(* Properties of the extractor and the validator *)

\* a string of exactly ten characters, each an ASCII digit 0-9
IsTenAsciiDigits(account) ==
    /\ account.k = "str"
    /\ Len(account.s) = 10
    /\ \A i \in 1..Len(account.s) : account.s[i] \in AsciiDigits

\* C6: validate partitions its input. valid holds exactly the elements that
\* are strings of ten ASCII digits 0-9, invalid every other element, both in
\* the order of the input and with duplicates kept, so that len(valid) +
\* len(invalid) = len(input); None and the empty list give two empty lists.
C6_ValidatePartition ==
    pc = "validate_done" =>
        LET input == IF account_numbers = PyNone THEN <<>> ELSE account_numbers.s
        IN  /\ valid_accounts = SelectSeq(input, IsTenAsciiDigits)
            /\ invalid_accounts = SelectSeq(input, LAMBDA a : ~IsTenAsciiDigits(a))
            /\ Len(valid_accounts) + Len(invalid_accounts) = Len(input)

\* a run of exactly ten digits starts at position p of t, with no word
\* character before it and none after it
IsAccountAt(t, p) ==
    /\ p >= 1
    /\ p + 9 <= Len(t)
    /\ \A i \in p..(p + 9) : IsReDigit(t[i])
    /\ p = 1 \/ ~IsWord(t[p - 1])
    /\ p + 9 = Len(t) \/ ~IsWord(t[p + 10])

\* where the ten-digit runs of t start
AccountStarts(t) == {p \in 1..Len(t) : IsAccountAt(t, p)}

\* where a ten-digit run first occurs in t
FirstStart(t, run) ==
    CHOOSE p \in AccountStarts(t) :
        /\ SubSeq(t, p, p + 9) = run
        /\ \A q \in AccountStarts(t) : SubSeq(t, q, q + 9) = run => p <= q

-----------------------------------------------------------------------------
(* Properties of the reason engine *)

\* the results of a finished run of process_accounts
EngineResults == IF pc = "engine_done" THEN Range(eligibility_results) ELSE {}

\* C3: status precedence. An account in the eligible set is ELIGIBLE, even
\* when the ineligible index also holds it; an account only in the
\* ineligible index is NOT_ELIGIBLE; an account in neither is
\* CANNOT_CONFIRM; ELIGIBLE and CANNOT_CONFIRM results carry no reasons.
C3_StatusPrecedence ==
    \A r \in EngineResults :
        LET id == r.account_number.s
        IN  /\ id \in eligible_customers => r.status = "ELIGIBLE"
            /\ id \notin eligible_customers /\ id \in DOMAIN reasons_file
                  => r.status = "NOT_ELIGIBLE"
            /\ id \notin eligible_customers /\ id \notin DOMAIN reasons_file
                  => r.status = "CANNOT_CONFIRM"
            /\ r.status \in {"ELIGIBLE", "CANNOT_CONFIRM"} => r.reasons = <<>>

\* C3 witness: an account held by both indexes came out ELIGIBLE, next to
\* one that came out NOT_ELIGIBLE
C3_Witness ==
    /\ pc = "engine_done"
    /\ \E r \in EngineResults :
          /\ r.account_number.s \in eligible_customers
          /\ r.account_number.s \in DOMAIN reasons_file
          /\ r.status = "ELIGIBLE"
    /\ \E r \in EngineResults : r.status = "NOT_ELIGIBLE"

\* C5: no step of the reason evaluation raises for a malformed record
\* (missing columns, None, blank strings, text in numeric fields), for any
\* facts-builder kind: a run of process_accounts ends with one result per
\* account.
C5_EngineNeverRaises ==
    pc # "engine_ready" =>
        /\ pc = "engine_done"
        /\ Len(eligibility_results) = Len(valid_accounts)

\* the reason definitions that trigger on the normalized form of a record
TriggeredRules(record) ==
    LET normalized == normalize_record(record, checks_catalog)
    IN  SelectSeq(reason_detection_rules,
                  LAMBDA rule :
                      /\ rule.trigger.type \in {"check_equals", "check_special_equals"}
                      /\ rule.trigger.check_column \in DOMAIN normalized
                      /\ normalized[rule.trigger.check_column] = rule.trigger.trigger_value)

\* C8: for an account found only in the ineligible index, a reason
\* definition contributes a reason exactly when its trigger type is
\* check_equals or check_special_equals and the normalized value of its
\* trigger column equals its trigger value; every definition is evaluated on
\* its own, so several may fire, and the reasons come in catalog order.
C8_TriggeredReasons ==
    \A r \in EngineResults :
        r.status = "NOT_ELIGIBLE" =>
            LET fired == TriggeredRules(reasons_file[r.account_number.s])
            IN  /\ Len(r.reasons) = Len(fired)
                /\ \A i \in 1..Len(fired) : r.reasons[i].code = fired[i].reason_code

\* C8 witness: both definitions fired for one record, in catalog order,
\* while for another record the first stayed silent and the second fired
C8_Witness ==
    /\ pc = "engine_done"
    /\ Len(reason_detection_rules) = 2
    /\ \E r \in EngineResults :
          /\ r.status = "NOT_ELIGIBLE"
          /\ Len(r.reasons) = 2
          /\ r.reasons[1].code = reason_detection_rules[1].reason_code
          /\ r.reasons[2].code = reason_detection_rules[2].reason_code
    /\ \E r \in EngineResults :
          /\ r.status = "NOT_ELIGIBLE"
          /\ Len(r.reasons) = 1
          /\ r.reasons[1].code = reason_detection_rules[2].reason_code

\* the required facts of a reason code, none when the code has no
\* explanation rule
RequiredFacts(code) ==
    IF code.s \in DOMAIN explanation_playbook
    THEN explanation_playbook[code.s].required_facts ELSE <<>>

\* C9: explanation gating. A reason is validated as passed exactly when
\* every required fact of its code is in its evidence with a value other
\* than None (a code without rule or required facts passes); missing_facts
\* lists the failures in order; explanation_status is ready exactly when the
\* validation passed and blocked otherwise; an explanation_error is present
\* exactly when the status is blocked.
C9_ExplanationGating ==
    \A r \in EngineResults :
        \A i \in 1..Len(r.reasons) :
            LET reason == r.reasons[i]
                required == RequiredFacts(reason.code)
                present(f) == f \in DOMAIN reason.evidence /\ reason.evidence[f] # PyNone
                all_present == \A k \in 1..Len(required) : present(required[k])
            IN  /\ reason.validation_status = (IF all_present THEN "passed" ELSE "failed")
                /\ reason.missing_facts = SelectSeq(required, LAMBDA f : ~present(f))
                /\ reason.explanation_status = (IF all_present THEN "ready" ELSE "blocked")
                /\ reason.explanation_error # PyNone <=> reason.explanation_status = "blocked"

\* C9 witness: one result holding a ready reason and a reason blocked by an
\* evidence value of None
C9_Witness ==
    /\ pc = "engine_done"
    /\ \E r \in EngineResults :
          /\ \E i \in 1..Len(r.reasons) : r.reasons[i].explanation_status = "ready"
          /\ \E i \in 1..Len(r.reasons) :
                /\ r.reasons[i].explanation_status = "blocked"
                /\ r.reasons[i].missing_facts # <<>>
                /\ \E f \in DOMAIN r.reasons[i].evidence : r.reasons[i].evidence[f] = PyNone

-----------------------------------------------------------------------------
(* Properties of the digit-run fallback *)

\* a maximal run of digits between two word boundaries starts after position p
\* and is at least n digits long
IsLongRunAt(t, p, n) ==
    /\ p + n <= Len(t)
    /\ \A i \in 1..n : IsReDigit(t[p + i])
    /\ p = 0 \/ ~IsWord(t[p])
    /\ \E q \in (p + n)..Len(t) :
          /\ \A i \in (p + 1)..q : IsReDigit(t[i])
          /\ q = Len(t) \/ ~IsWord(t[q + 1])

\* a message without keyword that holds a word-bounded run of nine or more
\* digits and no word-bounded run of exactly ten
FallbackOnly(message) ==
    /\ message.k = "str"
    /\ ~AnyKeyword(message.s)
    /\ \E p \in 0..Len(message.s) : IsLongRunAt(message.s, p, FallbackDigits)
    /\ AccountStarts(message.s) = {}

\* C11: a message without keyword that holds a word-bounded run of nine or
\* more digits but none of exactly ten is taken as an eligibility question by
\* the fallback, yields no account, and is answered with the error payload
\* "No account numbers found" and its remediation message
C11_FallbackWithoutAccount ==
    (pc = "done" /\ FallbackOnly(user_message)) =>
        /\ is_eligibility_check
        /\ stages = StagePrefix(2)
        /\ account_numbers = <<>>
        /\ ErrorOfType(response, "No account numbers found")
        /\ response.error_message =
               ErrorText("Please share the 10-digit account number(s) so I can confirm eligibility.")

-----------------------------------------------------------------------------
(* Properties of the log *)

\* the texts put into the message and the context of the entries written so far
LoggedTexts == UNION {log[i].texts : i \in 1..Len(log)}

\* C13: no entry written during a process_message call holds a raw account
\* identifier or the raw message text in its message or context; identifiers
\* and messages appear as hashes only, next to counts
C13_NoRawIdentifierLogged ==
    \A t \in LoggedTexts :
        /\ \A i \in 1..Len(account_numbers) : ~Contains(t, account_numbers[i].s)
        /\ (user_message.k = "str" /\ user_message.s # <<>>)
               => ~Contains(t, user_message.s)

\* C13 witness: a call over an extracted account has ended, its log holds a
\* reason, a failed validation and the end of the flow
C13_Witness ==
    /\ pc = "done"
    /\ account_numbers # <<>>
    /\ IsPayload(response)
    /\ \E i \in 1..Len(log) : log[i].event = "reason_extracted"
    /\ \E i \in 1..Len(log) : log[i].event = "reason_validation_failed"
    /\ \E i \in 1..Len(log) : log[i].event = "eligibility_flow_complete"

-----------------------------------------------------------------------------
(* Properties of the stores *)

-----------------------------------------------------------------------------
(* Properties of the evidence display *)

\* a template line read left to right, each placeholder of an evidence
\* field giving way to the text of that field's value
RECURSIVE Substituted(_, _)
Substituted(t, evidence) ==
    IF t = <<>> THEN <<>>
    ELSE LET hits == {f \in DOMAIN evidence :
                         /\ Len(Placeholder(f)) <= Len(t)
                         /\ SubSeq(t, 1, Len(Placeholder(f))) = Placeholder(f)}
         IN  IF hits = {} THEN <<Head(t)>> \o Substituted(Tail(t), evidence)
             ELSE LET f == CHOOSE x \in hits : TRUE
                  IN  TextOf(evidence[f])
                          \o Substituted(SubSeq(t, Len(Placeholder(f)) + 1, Len(t)), evidence)

\* the three cases of the display of one reason under its display rule
DisplayAsSpecified(reason) ==
    LET rule == LookupCode(evidence_display_rules, reason.code, NoDisplayRule)
        lines == reason.evidence_display
        lacking == \E i \in 1..Len(rule.required_fields) :
                      \/ rule.required_fields[i] \notin DOMAIN reason.evidence
                      \/ reason.evidence[rule.required_fields[i]] = PyNone
    IN  IF ~rule.has_evidence
        THEN IF rule.has_display_lines THEN lines = rule.display_lines
             ELSE lines = <<T.Evidence \o TextOf(reason.code)>>
        ELSE IF lacking
        THEN /\ Len(lines) = 1
             /\ lines[1] = T.warning \o (IF rule.has_missing_error THEN rule.missing_error
                                         ELSE T.Evidence_missing)
        ELSE /\ Len(lines) = Len(rule.format_template)
             /\ \A k \in 1..Len(lines) :
                   /\ lines[k] = Substituted(rule.format_template[k], reason.evidence)
                   /\ \A f \in DOMAIN reason.evidence : ~Contains(lines[k], Placeholder(f))

\* the reasons of the results of the last process_accounts call
ResultReasons ==
    UNION {Range(eligibility_results[i].reasons) : i \in 1..Len(eligibility_results)}

\* C15: the evidence display of every extracted reason is the static lines
\* of its rule (or the generic line naming the code) when the rule declares
\* no evidence, one warning line when a required field is absent or null,
\* and otherwise one line per template line, in order, placeholders filled
C15_EvidenceDisplay == \A reason \in ResultReasons : DisplayAsSpecified(reason)

\* C15 witness: one call produced a filled template line and a warning line
C15_Witness ==
    /\ pc = "engine_done"
    /\ \E reason \in ResultReasons :
          LET rule == LookupCode(evidence_display_rules, reason.code, NoDisplayRule)
          IN  /\ rule.has_evidence
              /\ Len(reason.evidence_display) = Len(rule.format_template)
              /\ reason.evidence_display # rule.format_template
              /\ reason.evidence_display[1] = Substituted(rule.format_template[1], reason.evidence)
    /\ \E reason \in ResultReasons :
          LET rule == LookupCode(evidence_display_rules, reason.code, NoDisplayRule)
          IN  /\ rule.has_evidence
              /\ reason.evidence_display
                     \in {<<T.warning \o T.Evidence_missing>>, <<T.warning \o D_missing>>}

-----------------------------------------------------------------------------
(* IntentDetector.detect on its own *)

RUN_8 == SubSeq(RUN_9, 1, 8)

IntentSegments ==
    {W_eligible, W_Eligible, W_loan_limit, W_weather, RUN_9, RUN_8,
     <<" ">>, <<"s">>, <<"uD800">>}

\* the texts made of at most n of these segments
RECURSIVE IntentTexts(_)
IntentTexts(n) ==
    IF n = 0 THEN {<<>>}
    ELSE LET shorter == IntentTexts(n - 1)
         IN  shorter \cup {t \o s : t \in shorter, s \in IntentSegments}

InitIntent ==
    /\ InitStoresEmpty
    /\ InitCall
    /\ pc = "intent_ready"

\* one call of detect: what it returned or that it raised, and its log entry
DetectorCall ==
    /\ pc = "intent_ready"
    /\ \E message \in {PyNone} \cup {PyStr(t) : t \in IntentTexts(MaxSegs)} :
          /\ user_message' = message
          /\ \E detected \in {detect(message)} :
                 /\ outcome' = [op |-> "detect", raised |-> detected.raised,
                                is_eligibility_check |-> detected.is_eligibility_check,
                                message_hash |-> detected.message_hash]
                 /\ is_eligibility_check' = detected.is_eligibility_check
                 /\ log' = IF detected.raised THEN <<>>
                           ELSE detect_entries(message, detected.is_eligibility_check)
    /\ pc' = "intent_done"
    /\ UNCHANGED <<stores, files, config_loader, data_loader, orchestrator, request_id,
                   account_numbers, valid_accounts, invalid_accounts, eligibility_results,
                   processor_latency, response, stages, calls, prev_message,
                   prev_response>>

NextIntent == DetectorCall

SpecIntent == InitIntent /\ [][NextIntent]_vars

-----------------------------------------------------------------------------
(* Properties of detect *)

\* what the detector is to answer for a text: a keyword, or no keyword and
\* a word-bounded run of nine or more digits
IntentOf(t) == AnyKeyword(t) \/ (~AnyKeyword(t) /\ DigitRunFallback(t))

\* C16: detect answers (False, "") for None, empty and whitespace-only
\* text; for any other text it answers, the boolean says whether a keyword
\* matches or, failing that, a run of nine or more digits, and the hash is
\* not empty and determined by the text alone
C16_DetectTotal ==
    pc = "intent_done" =>
        /\ ~outcome.raised
        /\ IF NotMessage(user_message)
           THEN /\ outcome.is_eligibility_check = FALSE
                /\ outcome.message_hash = PyStr(<<>>)
           ELSE /\ outcome.is_eligibility_check = IntentOf(user_message.s)
                /\ outcome.message_hash.s # <<>>
                /\ outcome.message_hash = hash_prompt(user_message.s)

-----------------------------------------------------------------------------
(* LLMPayloadBuilder.build on its own *)

\* a reason as build reads it: its explanation_status
SampleReason(code, explanation_status) ==
    [code |-> PyStr(code), explanation_status |-> explanation_status]

\* an account result as build and _validate_payload read it
SampleResult(hash, status, reasons) ==
    [account_number_hash |-> PyStr(hash), status |-> status, reasons |-> reasons]

BuilderResults ==
    {SampleResult(<<"h1">>, "ELIGIBLE", <<>>),
     SampleResult(<<"h2">>, "CANNOT_CONFIRM", <<>>),
     SampleResult(<<"h3">>, "NOT_ELIGIBLE", <<SampleReason(CODE_JOINT, "ready")>>),
     SampleResult(<<"h4">>, "NOT_ELIGIBLE",
                  <<SampleReason(CODE_DPD, "blocked"), SampleReason(CODE_JOINT, "ready")>>)}

InitBuild ==
    /\ InitStoresEmpty
    /\ InitCall
    /\ pc = "build_ready"

\* one call of build(eligibility_results, request_id, processing_latency_ms)
\* on None or a list; the arguments are kept beside the payload it returns
BuilderCall ==
    /\ pc = "build_ready"
    /\ \E results \in {PyNone} \cup {PyList(l) : l \in ListsUpTo(BuilderResults, MaxList)},
          rid \in 1..MaxCalls, latency \in Latencies :
          /\ outcome' = [op |-> "build", raised |-> FALSE, eligibility_results |-> results]
          /\ eligibility_results' = IF Truthy(results) THEN results.s ELSE <<>>
          /\ request_id' = rid
          /\ processor_latency' = latency
          /\ response' = build(results, rid, latency, calls + 1)
          /\ log' = build_entries(results)
    /\ calls' = calls + 1
    /\ pc' = "build_done"
    /\ UNCHANGED <<stores, files, config_loader, data_loader, orchestrator, user_message,
                   is_eligibility_check, account_numbers, valid_accounts, invalid_accounts,
                   stages, prev_message, prev_response>>

NextBuild == BuilderCall

SpecBuild == InitBuild /\ [][NextBuild]_vars

-----------------------------------------------------------------------------
(* Properties of build *)

\* the reasons of a result list, each by its place
ReasonPlaces(results) ==
    UNION {{<<i, j>> : j \in 1..Len(results[i].reasons)} : i \in 1..Len(results)}

\* the fields the data model gives the summary of a payload
SummaryFields ==
    {"total_accounts", "eligible_count", "not_eligible_count", "cannot_confirm_count",
     "total_reasons_extracted", "reasons_ready_for_llm", "processing_latency_ms"}

\* C17: the summary of the payload build returns counts the results it was
\* given: all reasons, the reasons whose explanation_status is "ready" (never
\* more than all), the results of each status; and accounts is the given
\* sequence, elements and order kept
C17_SummaryFromResults ==
    pc = "build_done" =>
        LET given == eligibility_results
            summary == response.summary
            places == ReasonPlaces(given)
            ready == {p \in places : given[p[1]].reasons[p[2]].explanation_status = "ready"}
        IN  /\ summary.total_reasons_extracted = Cardinality(places)
            /\ "reasons_ready_for_llm" \in DOMAIN summary
            /\ summary.reasons_ready_for_llm = Cardinality(ready)
            /\ summary.reasons_ready_for_llm <= summary.total_reasons_extracted
            /\ \A status \in {"ELIGIBLE", "NOT_ELIGIBLE", "CANNOT_CONFIRM"} :
                  LET field == CASE status = "ELIGIBLE" -> summary.eligible_count
                                 [] status = "NOT_ELIGIBLE" -> summary.not_eligible_count
                                 [] OTHER -> summary.cannot_confirm_count
                  IN  field = Cardinality({i \in 1..Len(given) : given[i].status = status})
            /\ response.accounts = given

\* C18: every payload build returns has request_id, batch_timestamp,
\* accounts and summary, and its summary has every field of the data model;
\* for empty or None results accounts is empty and every count is zero
C18_PayloadComplete ==
    pc = "build_done" =>
        /\ ~outcome.raised
        /\ {"request_id", "batch_timestamp", "accounts", "summary"} \subseteq DOMAIN response
        /\ SummaryFields \subseteq DOMAIN response.summary
        /\ ~Truthy(outcome.eligibility_results) =>
              /\ response.accounts = <<>>
              /\ \A f \in (SummaryFields \cap DOMAIN response.summary)
                             \ {"processing_latency_ms"} : response.summary[f] = 0

\* C20: build hands its scalar arguments through for every results value,
\* None and the empty list included: request_id and processing_latency_ms
\* of the payload are the arguments
C20_ScalarsPassedThrough ==
    pc = "build_done" =>
        /\ response.request_id = request_id
        /\ response.summary.processing_latency_ms = processor_latency

-----------------------------------------------------------------------------
(* Properties of the error responses *)

\* the top-level fields _validate_payload requires of a payload
RequiredPayloadFields == {"request_id", "batch_timestamp", "accounts", "summary"}

\* C19: every error response of process_message carries the required
\* payload fields, status "ERROR", an error type and a non-empty error
\* message, no accounts and only zero counts; a success payload never
\* carries status "ERROR"
C19_ErrorResponseWellFormed ==
    (pc = "done" /\ response # PyNone) =>
        IF "error_type" \in DOMAIN response
        THEN /\ RequiredPayloadFields \subseteq DOMAIN response
             /\ response.status = "ERROR"
             /\ response.error_message.text # ""
             /\ response.accounts = <<>>
             /\ \A f \in DOMAIN response.summary : response.summary[f] = 0
        ELSE /\ RequiredPayloadFields \subseteq DOMAIN response
             /\ "status" \notin DOMAIN response

-----------------------------------------------------------------------------
(* Properties of the facts builders *)

\* the number a cell counts as: a number is itself, a text of decimal
\* digits is its value, everything else (blank, missing, other text) is 0
CountedAs(val) ==
    CASE val.k = "num" -> val.n
      [] val.k = "str" /\ StripIn(val.s, {" ", "NL", "TAB"}) # <<>>
                       /\ \A i \in 1..Len(StripIn(val.s, {" ", "NL", "TAB"})) :
                             IsReDigit(StripIn(val.s, {" ", "NL", "TAB"})[i])
            -> DigitsToNat(StripIn(val.s, {" ", "NL", "TAB"}))
      [] OTHER -> 0

\* the evidence of the builder max_of_numeric_fields_with_evidence as
\* described: five keys, the maximum of the counted values, and the first
\* field that holds it
MaxEvidenceAsSpecified(rule, record, built) ==
    LET fields == rule.facts_builder.fields
        counted == [i \in 1..Len(fields) |-> CountedAs(Get(record, fields[i], PyNum(0)))]
        largest == IF fields = <<>> THEN 0
                   ELSE CHOOSE m \in Range(counted) : \A v \in Range(counted) : m >= v
        named(name) == IF \E i \in 1..Len(fields) : fields[i] = PyStr(name)
                       THEN counted[CHOOSE i \in 1..Len(fields) : fields[i] = PyStr(name)]
                       ELSE 0
    IN  /\ ~built.raised
        /\ DOMAIN built.evidence = {T.arrears_days, T.credit_card_od_days, T.dpd_days,
                                    T.max_dpd_driver, T.driver_source}
        /\ built.evidence[T.arrears_days] = PyNum(named(T.Arrears_Days))
        /\ built.evidence[T.credit_card_od_days] = PyNum(named(T.Credit_Card_OD_Days))
        /\ built.evidence[T.dpd_days] = PyNum(named(T.DPD_Days))
        /\ built.evidence[T.max_dpd_driver] = PyNum(largest)
        /\ \A name \in {T.arrears_days, T.credit_card_od_days, T.dpd_days} :
              built.evidence[T.max_dpd_driver].n >= built.evidence[name].n
        /\ built.evidence[T.driver_source] =
              (IF largest > 0
               THEN PyStr(fields[CHOOSE i \in 1..Len(fields) :
                                    /\ counted[i] = largest
                                    /\ \A j \in 1..(i - 1) : counted[j] # largest].s)
               ELSE PyStr(<<>>))

\* C21: for the builder max_of_numeric_fields_with_evidence and any record
\* of the ineligible table, every configured field counts as a number
\* (blank, missing and non-numeric values as 0), the evidence has exactly
\* the keys arrears_days, credit_card_od_days, dpd_days, max_dpd_driver and
\* driver_source, max_dpd_driver is the maximum of the counted values and at
\* least each named driver, and driver_source names the first field holding
\* the maximum, empty only when no field is positive.
C21_MaxWithEvidence ==
    pc # "engine_ready" =>
        \A i \in 1..Len(valid_accounts) :
            valid_accounts[i].s \in DOMAIN reasons_file =>
                \A normalized \in {normalize_record(reasons_file[valid_accounts[i].s],
                                                    checks_catalog)} :
                \A k \in 1..Len(reason_detection_rules) :
                    reason_detection_rules[k].facts_builder.type
                        = "max_of_numeric_fields_with_evidence" =>
                    \A built \in {build_facts(reason_detection_rules[k], normalized)} :
                        MaxEvidenceAsSpecified(reason_detection_rules[k], normalized, built)

-----------------------------------------------------------------------------
(* Properties of the normalization *)

\* the normalized value of a cell as described: a configured blank value
\* becomes "", or 0 in a blank-to-zero column; any other value stays
SentinelsOnly(value, key, catalog) ==
    IF value \in BlankValues(catalog)
    THEN IF key \in Range(catalog.convert_blanks_to_zero_for_numeric_fields)
         THEN PyNum(0) ELSE PyStr(<<>>)
    ELSE value

\* the same, with "" in a blank-to-zero column becoming 0 whether or not it
\* is a configured blank value
SentinelsAndEmpty(value, key, catalog) ==
    IF /\ key \in Range(catalog.convert_blanks_to_zero_for_numeric_fields)
       /\ value = PyStr(<<>>)
    THEN PyNum(0)
    ELSE SentinelsOnly(value, key, catalog)

\* the records process_accounts has normalized: those of the accounts that
\* are only in the ineligible index
NormalizedRecords ==
    IF pc = "engine_ready" THEN {}
    ELSE {reasons_file[valid_accounts[i].s] :
             i \in {j \in 1..Len(valid_accounts) :
                       /\ valid_accounts[j].s \notin eligible_customers
                       /\ valid_accounts[j].s \in DOMAIN reasons_file}}

\* every normalized record has the keys of its raw record and the expected
\* value under each, and normalizing it again changes nothing
NormalizedBy(expected(_, _, _)) ==
    \A raw \in NormalizedRecords :
        \A normalized \in {normalize_record(raw, checks_catalog)} :
            /\ DOMAIN normalized = DOMAIN raw
            /\ \A key \in DOMAIN raw :
                  normalized[key] = expected(raw[key], key, checks_catalog)
            /\ normalize_record(normalized, checks_catalog) = normalized

\* C22 as stated: the normalized record has exactly the keys of the raw
\* record; a value that is a configured blank value becomes "", or 0 in a
\* blank-to-zero column; every other value is unchanged; the raw record is
\* left as it was; normalizing a normalized record changes nothing.
C22_NormalizationAsStated ==
    [][reasons_file' = reasons_file /\ NormalizedBy(SentinelsOnly)']_vars

\* C22 amended: as stated, except that in a blank-to-zero column the empty
\* string becomes 0 even when "" is not among the configured blank values.
C22_Normalization ==
    [][reasons_file' = reasons_file /\ NormalizedBy(SentinelsAndEmpty)']_vars

\* C22 witness: a record was normalized under a catalog whose blank values
\* leave "" out: a blank text cell became "", a blank cell of a
\* blank-to-zero column became 0, and so did a "" cell of such a column
C22_Witness ==
    /\ pc = "engine_done"
    /\ PyStr(<<>>) \notin BlankValues(checks_catalog)
    /\ \E raw \in NormalizedRecords :
          \E normalized \in {normalize_record(raw, checks_catalog)} :
              /\ \E key \in DOMAIN raw :
                    /\ raw[key] = PyStr(<<" ">>)
                    /\ normalized[key] = PyStr(<<>>)
              /\ \E key \in DOMAIN raw :
                    /\ raw[key] = PyNone
                    /\ normalized[key] = PyNum(0)
              /\ \E key \in DOMAIN raw :
                    /\ raw[key] = PyStr(<<>>)
                    /\ normalized[key] = PyNum(0)

-----------------------------------------------------------------------------
(* Properties of configurations with gaps *)

\* the trigger types and facts-builder types the processor knows
TriggerTypes == {"check_equals", "check_special_equals"}

BuilderTypes ==
    {"simple", "simple_with_evidence", "simple_with_parameters",
     "max_of_numeric_fields_with_evidence", "max_of_numeric_fields"}

\* C23: configuration gaps degrade without failing. A rule whose trigger
\* type is unknown never fires; the builder of a triggered rule whose
\* facts-builder type is unknown raises nothing and the reason appears with
\* empty facts and empty evidence; a reason whose code has no playbook entry
\* appears with meaning "", next_steps [], review_type "", review_timing ""
\* and constraints []; a reason whose code has no display rule gets the one
\* generic line; the account stays NOT_ELIGIBLE.
C23_ConfigurationGaps ==
    /\ \A raw \in NormalizedRecords :
       \A normalized \in {normalize_record(raw, checks_catalog)} :
       \A k \in 1..Len(reason_detection_rules) :
          LET rule == reason_detection_rules[k]
          IN  /\ rule.trigger.type \notin TriggerTypes
                    => ~check_trigger(rule.trigger, normalized)
              /\ rule.facts_builder.type \notin BuilderTypes
                    => build_facts(rule, normalized)
                          = [raised |-> FALSE, facts |-> <<>>, evidence |-> EmptyDict]
    /\ \A r \in EngineResults :
          r.account_number.s \notin eligible_customers
          /\ r.account_number.s \in DOMAIN reasons_file =>
             \A fired \in {TriggeredRules(reasons_file[r.account_number.s])} :
                /\ r.status = "NOT_ELIGIBLE"
                /\ Len(r.reasons) = Len(fired)
                /\ \A i \in 1..Len(fired) :
                      LET reason == r.reasons[i]
                      IN  /\ reason.code = fired[i].reason_code
                          /\ fired[i].facts_builder.type \notin BuilderTypes
                                => reason.facts = <<>> /\ reason.evidence = EmptyDict
                          /\ reason.code.s \notin DOMAIN reason_playbook
                                => /\ reason.meaning = <<>>
                                   /\ reason.next_steps = <<>>
                                   /\ reason.review_type = <<>>
                                   /\ reason.review_timing = <<>>
                                   /\ reason.constraints = <<>>
                          /\ reason.code.s \notin DOMAIN evidence_display_rules
                                => reason.evidence_display
                                      = <<T.Evidence \o reason.code.s>>

\* C23 witness: a record on which a rule of unknown trigger type would have
\* matched gave a single reason, that of a rule with an unknown builder and
\* a code known to neither the playbook nor the display rules
C23_Witness ==
    /\ pc = "engine_done"
    /\ \E k \in 1..Len(reason_detection_rules) :
       \E r \in EngineResults :
          /\ r.status = "NOT_ELIGIBLE"
          /\ reason_detection_rules[k].trigger.type \notin TriggerTypes
          /\ check_trigger_any_type(reason_detection_rules[k].trigger,
                 normalize_record(reasons_file[r.account_number.s], checks_catalog))
          /\ Len(r.reasons) = 1
          /\ r.reasons[1].code.s \notin DOMAIN reason_playbook
          /\ r.reasons[1].code.s \notin DOMAIN evidence_display_rules
          /\ r.reasons[1].facts = <<>>
          /\ r.reasons[1].evidence_display # <<>>
          /\ \E j \in 1..Len(reason_detection_rules) :
                /\ reason_detection_rules[j].reason_code = r.reasons[1].code
                /\ reason_detection_rules[j].facts_builder.type \notin BuilderTypes

-----------------------------------------------------------------------------
(* DataLoader._load_excel_file on its own *)

\* the key column of reasons_file.xlsx and a second column
N_account_number == <<"account_number">>

\* the most data rows of a worksheet
MaxRows == 3

\* header rows: the key column first, the key column second, no key column
\* (with a header cell left empty)
LoaderHeaders ==
    {<<PyStr(N_account_number), PyStr(T.CUSTOMERNAMES)>>,
     <<PyStr(T.CUSTOMERNAMES), PyStr(N_account_number)>>,
     <<PyStr(T.CUSTOMERNAMES), PyNone>>}

\* data rows: text and number cells that str() maps to the same key, a row
\* without key cell, an empty row, a key cell holding "", one holding the
\* text "None"
LoaderRows ==
    {<<PyStr(V_7), PyStr(V_Ann)>>,
     <<PyNum(7), PyStr(V_x)>>,
     <<PyStr(ACC_A), PyNone>>,
     <<PyNone, PyStr(V_Ann)>>,
     <<PyNone, PyNone>>,
     <<PyStr(<<>>), PyStr(V_7)>>,
     <<PyStr(T.None), PyStr(V_x)>>}

\* row_dict[header] = row[col_idx] for every header in order
RowDict(headers, row) ==
    [header \in Range(headers) |->
        row[CHOOSE i \in 1..Len(headers) :
               headers[i] = header /\ \A j \in 1..Len(headers) : headers[j] = header => j <= i]]

\* the loop over worksheet.iter_rows(min_row=2, values_only=True)
RECURSIVE LoadRows(_, _, _, _, _)
LoadRows(rows, headers, key_col_idx, data_dict, duplicate_keys) ==
    IF rows = <<>> THEN [data_dict |-> data_dict, duplicate_keys |-> duplicate_keys]
    ELSE LET row == Head(rows)
             key_value == TextOf(row[key_col_idx])
         IN  IF \A i \in 1..Len(row) : row[i] = PyNone
             THEN LoadRows(Tail(rows), headers, key_col_idx, data_dict, duplicate_keys)
             ELSE IF key_value = <<>> \/ key_value = T.None
             THEN LoadRows(Tail(rows), headers, key_col_idx, data_dict, duplicate_keys)
             ELSE IF key_value \in DOMAIN data_dict
             THEN LoadRows(Tail(rows), headers, key_col_idx, data_dict,
                           Append(duplicate_keys, key_value))
             ELSE LoadRows(Tail(rows), headers, key_col_idx,
                           [key \in DOMAIN data_dict \cup {key_value} |->
                               IF key = key_value THEN RowDict(headers, row)
                               ELSE data_dict[key]],
                           duplicate_keys)

\* the index of a worksheet, rows in sheet order
load_rows(headers, key_col_idx, rows) ==
    LoadRows(rows, headers, key_col_idx, NoRows, <<>>)

\* DataLoader._load_excel_file on an existing workbook: headers.index
\* raises ValueError when the key column is not in the header row
load_excel_file(headers, rows, key_column) ==
    IF PyStr(key_column) \notin Range(headers)
    THEN [raised |-> TRUE, data_dict |-> NoRows, duplicate_keys |-> <<>>]
    ELSE \* bound once
         Only({[raised |-> FALSE, data_dict |-> loaded.data_dict,
                duplicate_keys |-> loaded.duplicate_keys] :
                  loaded \in {load_rows(headers, IndexOf(headers, PyStr(key_column)), rows)}})

\* the entries _load_excel_file writes
load_entries(loaded) ==
    IF loaded.raised
    THEN <<Entry("key_column_not_found", <<>>, {}, {}, <<>>),
           Entry("data_file_load_error", <<"ValueError">>, {}, {}, <<>>)>>
    ELSE (IF loaded.duplicate_keys # <<>>
          THEN <<Entry("data_file_duplicates_found", <<>>, {}, {},
                       <<Len(loaded.duplicate_keys)>>)>>
          ELSE <<>>)
         \o <<Entry("data_file_loaded", <<>>, {}, {},
                    <<Cardinality(DOMAIN loaded.data_dict), Len(loaded.duplicate_keys)>>)>>

InitLoad ==
    /\ InitStoresEmpty
    /\ InitCall
    /\ pc = "load_ready"

\* one call of _load_excel_file for reasons_file.xlsx: the index it
\* returns becomes self.reasons_file
LoaderCall ==
    /\ pc = "load_ready"
    /\ \E headers \in LoaderHeaders :
       \E rows \in ListsUpTo(LoaderRows, MaxRows) :
       \E loaded \in {load_excel_file(headers, rows, N_account_number)} :
          /\ outcome' = [op |-> "_load_excel_file", raised |-> loaded.raised,
                         headers |-> headers, rows |-> rows,
                         duplicate_keys |-> loaded.duplicate_keys]
          /\ reasons_file' = IF loaded.raised THEN reasons_file ELSE loaded.data_dict
          /\ log' = load_entries(loaded)
          /\ pc' = IF loaded.raised THEN "load_raised" ELSE "load_done"
    /\ UNCHANGED <<lookups, files, config_loader, data_loader, orchestrator,
                   user_message, request_id, is_eligibility_check, account_numbers,
                   valid_accounts, invalid_accounts, eligibility_results,
                   processor_latency, response, stages, calls, prev_message,
                   prev_response>>

NextLoad == LoaderCall

SpecLoad == InitLoad /\ [][NextLoad]_vars

-----------------------------------------------------------------------------
(* Properties of the index construction *)

\* the rows of the loaded worksheet that have a key: not completely empty,
\* and the key cell neither missing nor blank
KeyedRows ==
    LET at == IndexOf(outcome.headers, PyStr(N_account_number))
    IN  SelectSeq(outcome.rows,
                  LAMBDA row : /\ \E i \in 1..Len(row) : row[i] # PyNone
                               /\ row[at] \notin {PyNone, PyStr(<<>>)})

\* C24: the index maps each key to the row of its first occurrence, later
\* rows with the same key never replace it; rows whose key cell is missing
\* and completely empty rows are skipped; duplicates are counted and logged,
\* never raised; the index has exactly one entry per distinct key present
\* in the table.
C24_FirstOccurrenceIndex ==
    pc \in {"load_done", "load_raised"} =>
        /\ pc = "load_raised" <=> PyStr(N_account_number) \notin Range(outcome.headers)
        /\ pc = "load_done" =>
              LET at == IndexOf(outcome.headers, PyStr(N_account_number))
                  keyed == KeyedRows
                  keys == {TextOf(keyed[i][at]) : i \in 1..Len(keyed)}
                  first(key) == CHOOSE i \in 1..Len(keyed) :
                                   /\ TextOf(keyed[i][at]) = key
                                   /\ \A j \in 1..(i - 1) : TextOf(keyed[j][at]) # key
              IN  /\ DOMAIN reasons_file = keys
                  /\ \A key \in keys :
                        reasons_file[key] = RowDict(outcome.headers, keyed[first(key)])
                  /\ Len(outcome.duplicate_keys) = Len(keyed) - Cardinality(keys)
                  /\ log[Len(log)].counts = <<Cardinality(keys), Len(keyed) - Cardinality(keys)>>

-----------------------------------------------------------------------------
(* Properties of the display lines *)

\* a non-empty list of non-empty lines
IsDisplay(lines) == lines # <<>> /\ \A i \in 1..Len(lines) : lines[i] # <<>>

\* a line that keeps some text when every placeholder of an evidence field
\* is filled with nothing
KeepsText(line, evidence) ==
    ReplaceEach(line, DOMAIN evidence, [f \in DOMAIN evidence |-> PyStr(<<>>)]) # <<>>

\* the display rule of a reason, if any, configures lines: display_lines
\* that form a display for a rule without evidence, at least one template
\* line for a rule with evidence, each keeping text of its own
LinesConfigured(reason) ==
    LET rule == LookupCode(evidence_display_rules, reason.code, NoDisplayRule)
    IN  IF ~rule.has_evidence
        THEN rule.has_display_lines => IsDisplay(rule.display_lines)
        ELSE /\ rule.format_template # <<>>
             /\ \A i \in 1..Len(rule.format_template) :
                   KeepsText(rule.format_template[i], reason.evidence)

\* C25 as stated: every reason of every NOT_ELIGIBLE result carries an
\* evidence_display that is a non-empty list of non-empty strings, whether
\* its evidence is present, missing or not used.
C25_DisplayNeverEmptyAsStated ==
    \A r \in EngineResults :
        r.status = "NOT_ELIGIBLE" =>
            \A i \in 1..Len(r.reasons) : IsDisplay(r.reasons[i].evidence_display)

\* C25 amended: the same for every reason whose display rule, if it has
\* one, configures lines; a rule with evidence and no template line gives
\* an empty list.
C25_DisplayNeverEmpty ==
    \A r \in EngineResults :
        r.status = "NOT_ELIGIBLE" =>
            \A i \in 1..Len(r.reasons) :
                LET reason == r.reasons[i]
                    rule == LookupCode(evidence_display_rules, reason.code, NoDisplayRule)
                IN  /\ LinesConfigured(reason) => IsDisplay(reason.evidence_display)
                    /\ MissingIn(rule.required_fields, reason.evidence) # <<>>
                       /\ rule.has_evidence
                          => IsDisplay(reason.evidence_display)
                    /\ rule.has_evidence /\ rule.format_template = <<>>
                       /\ MissingIn(rule.required_fields, reason.evidence) = <<>>
                          => reason.evidence_display = <<>>

\* C25 witness: one run gave a reason whose evidence was missing (the
\* warning line), a reason of the same code whose evidence was present
\* (the filled template) and a reason without display rule (the generic
\* line), each a non-empty list of non-empty lines
C25_Witness ==
    /\ pc = "engine_done"
    /\ \E r1 \in EngineResults, r2 \in EngineResults :
       \E i \in 1..Len(r1.reasons), j \in 1..Len(r2.reasons), k \in 1..Len(r1.reasons) :
          LET missing == r1.reasons[i]
              present == r2.reasons[j]
              plain == r1.reasons[k]
              rule == LookupCode(evidence_display_rules, missing.code, NoDisplayRule)
          IN  /\ missing.code = present.code
              /\ rule.has_evidence
              /\ MissingIn(rule.required_fields, missing.evidence) # <<>>
              /\ MissingIn(rule.required_fields, present.evidence) = <<>>
              /\ plain.code.s \notin DOMAIN evidence_display_rules
              /\ IsDisplay(missing.evidence_display)
              /\ IsDisplay(present.evidence_display)
              /\ IsDisplay(plain.evidence_display)
              /\ missing.evidence_display # present.evidence_display

-----------------------------------------------------------------------------
(* The command dispatcher: utils/commands/dispatcher.py and registry.py *)

\* process_message as one function of its message: what the call returns
\* for request id rid, processor latency and clock reading now
process_message_of(message, rid, latency, now) ==
    Only({IF detected.raised THEN handle_exception(rid)
          ELSE IF ~detected.is_eligibility_check THEN PyNone
          ELSE Only({IF extracted = <<>>
                     THEN build_error_response(rid, "No account numbers found",
                              ErrorText("Please share the 10-digit account number(s) so I can confirm eligibility."))
                     ELSE Only({IF checked.valid = <<>>
                                THEN build_error_response(rid, "Invalid account numbers",
                                         [text |-> "The following account numbers are invalid: . Account numbers must be exactly 10 digits.",
                                          listed |-> checked.invalid])
                                ELSE Only({IF processed.raised THEN handle_exception(rid)
                                           ELSE IF processed.results = <<>>
                                           THEN build_error_response(rid, "Processing failed",
                                                    ErrorText("Unable to process eligibility check. Please try again."))
                                           ELSE build(PyList(processed.results), rid, latency, now) :
                                             processed \in {process_accounts(checked.valid)}}) :
                                  checked \in {validate(PyList(extracted))}}) :
                       extracted \in {extract(message)}}) :
            detected \in {detect(message)}})

\* the parameters process_message declares besides self
process_message_parameters == {"user_message"}

\* the entries of commands_registry.json: the eligibility command, a
\* command with another handler, a disabled command
N_check_eligibility == <<"/check_eligibility">>

N_help == <<"/help">>

N_old_check == <<"/old_check">>

N_nope == <<"/nope">>

COMMANDS ==
    <<[command |-> N_check_eligibility, enabled |-> TRUE, handler |-> "check_eligibility",
       args_schema |-> <<[type |-> "account", required |-> TRUE]>>],
      [command |-> N_help, enabled |-> TRUE, handler |-> "show_help",
       args_schema |-> <<>>],
      [command |-> N_old_check, enabled |-> FALSE, handler |-> "check_eligibility",
       args_schema |-> <<[type |-> "account", required |-> TRUE]>>]>>

\* get_registry()["_by_command"]: the enabled commands by their command string
by_command ==
    [name \in {COMMANDS[i].command : i \in {j \in 1..Len(COMMANDS) : COMMANDS[j].enabled}} |->
        COMMANDS[CHOOSE i \in 1..Len(COMMANDS) :
                    /\ COMMANDS[i].command = name /\ COMMANDS[i].enabled
                    /\ \A j \in 1..Len(COMMANDS) :
                          COMMANDS[j].command = name /\ COMMANDS[j].enabled => j <= i]]

\* registry._extract_accounts_from_args
extract_accounts_from_args(args_raw) ==
    IF NotMessage(args_raw) THEN <<>>
    ELSE Dedupe(ACCOUNT_PATTERN_findall(args_raw.s, 0), {})

\* registry.validate_command_args for a registered command
validate_command_args(command_name, args_raw) ==
    LET schema == by_command[command_name].args_schema
        typed == \E i \in 1..Len(schema) : schema[i].type = "account"
        required == \E i \in 1..Len(schema) :
                       schema[i].type = "account" /\ schema[i].required
    IN  Only({[valid |-> ~(required /\ accounts = <<>>),
               errors |-> IF required /\ accounts = <<>>
                          THEN <<"Please provide a 10-digit account number.">> ELSE <<>>,
               has_accounts |-> typed,
               extracted_accounts |-> IF typed THEN accounts ELSE <<>>] :
                 accounts \in {extract_accounts_from_args(args_raw)}})

\* a result of dispatch_command
DispatchResult(success, reply, payload, error_type, error_message) ==
    [success |-> success, response |-> reply, payload |-> payload,
     error_type |-> error_type, error_message |-> error_message]

\* " ".join(texts)
RECURSIVE JoinSpace(_)
JoinSpace(texts) ==
    IF texts = <<>> THEN <<>>
    ELSE IF Len(texts) = 1 THEN Head(texts)
    ELSE Head(texts) \o <<" ">> \o JoinSpace(Tail(texts))

\* dispatcher._handle_check_eligibility: the import, the constructor, the
\* call process_message(message_with_account, skip_intent_detection=True),
\* which raises TypeError for a keyword the method does not declare, and
\* the wrapping of what the call returns
handle_check_eligibility(args_raw, extracted_accounts, imported, rid, latency, now) ==
    IF ~imported
    THEN DispatchResult(FALSE, PyStr(<<"Eligibility service is not available.">>), PyNone,
                        PyStr(<<"handler_error">>),
                        PyStr(<<"Eligibility module not available.">>))
    ELSE IF ~({"user_message", "skip_intent_detection"} \subseteq process_message_parameters)
    THEN DispatchResult(FALSE,
                        PyStr(<<"I couldn't complete that command. Please try again.">>),
                        PyNone, PyStr(<<"handler_error">>),
                        PyStr(<<"EligibilityOrchestrator.process_message() got an unexpected keyword argument 'skip_intent_detection'">>))
    ELSE Only({IF payload = PyNone
               THEN DispatchResult(FALSE,
                        PyStr(<<"Unable to process eligibility check. Please try again.">>),
                        PyNone, PyStr(<<"handler_error">>),
                        PyStr(<<"Orchestrator returned no result.">>))
               ELSE IF payload.status = "ERROR"
               THEN DispatchResult(TRUE, PyStr(<<payload.error_message.text>>), payload,
                                   PyNone, PyNone)
               ELSE DispatchResult(TRUE, PyNone, payload, PyNone, PyNone) :
                 payload \in {process_message_of(
                                  IF IsBlankText(args_raw)
                                  THEN PyStr(JoinSpace(extracted_accounts))
                                  ELSE PyStr(args_raw),
                                  rid, latency, now)}})

\* dispatcher.dispatch_command with the registry of get_registry()
dispatch_command(command_name, args_raw, imported, rid, latency, now) ==
    IF command_name \notin DOMAIN by_command
    THEN DispatchResult(FALSE, PyNone, PyNone, PyStr(<<"unknown_command">>),
                        PyStr(<<"I don't recognize that command.">>))
    ELSE Only({IF ~checked.valid
               THEN DispatchResult(FALSE, PyStr(JoinSpace(checked.errors)), PyNone,
                                   PyStr(<<"missing_args">>),
                                   PyStr(JoinSpace(checked.errors)))
               ELSE IF by_command[command_name].handler = "check_eligibility"
               THEN handle_check_eligibility(
                        IF Truthy(args_raw) THEN args_raw.s ELSE <<>>,
                        checked.extracted_accounts, imported, rid, latency, now)
               ELSE DispatchResult(FALSE, PyNone, PyNone, PyStr(<<"unknown_command">>),
                                   PyStr(<<"No handler for this command.">>)) :
                 checked \in {validate_command_args(command_name, args_raw)}})

\* the commands a caller dispatches and their argument texts
DispatchCommands == {N_check_eligibility, N_help, N_old_check, N_nope}

InitDispatch ==
    /\ InitStoresPipeline
    /\ InitCall
    /\ pc = "dispatch_ready"

\* one call of dispatch_command; imported tells whether the eligibility
\* package can be imported
DispatcherCall ==
    /\ pc = "dispatch_ready"
    /\ \E command_name \in DispatchCommands, args_raw \in Messages, imported \in BOOLEAN,
          latency \in Latencies :
          /\ user_message' = args_raw
          /\ processor_latency' = latency
          /\ outcome' = [op |-> "dispatch_command", raised |-> FALSE,
                         command_name |-> command_name, imported |-> imported,
                         result |-> dispatch_command(command_name, args_raw, imported,
                                                     calls + 1, latency, calls + 1)]
    /\ pc' = "dispatch_done"
    /\ UNCHANGED <<stores, files, config_loader, data_loader, orchestrator, request_id,
                   is_eligibility_check, account_numbers, valid_accounts,
                   invalid_accounts, eligibility_results, response, stages, calls,
                   prev_message, prev_response, log>>

NextDispatch == DispatcherCall

SpecDispatch == InitDispatch /\ [][NextDispatch]_vars

-----------------------------------------------------------------------------
(* Properties of the dispatcher *)

\* C26: for a registered, enabled command whose handler is
\* check_eligibility and whose argument text holds at least one 10-digit
\* account number, dispatch_command runs the orchestrator flow on that text
\* and returns success = True with the orchestrator's payload, which is not
\* None; it returns a handler_error result only when the eligibility module
\* is unavailable or the orchestrator fails.
C26_DispatchRunsFlow ==
    pc = "dispatch_done"
    /\ outcome.command_name \in DOMAIN by_command
    /\ by_command[outcome.command_name].handler = "check_eligibility"
    /\ extract(user_message) # <<>>
    /\ outcome.imported
        => /\ outcome.result.success
           /\ outcome.result.payload # PyNone
           /\ outcome.result.error_type = PyNone

-----------------------------------------------------------------------------
(* Properties of extraction followed by validation *)

-----------------------------------------------------------------------------
(* Properties of the batch *)

\* the results answer the identifiers one to one and in order
OnePerIdentifier(results, identifiers) ==
    /\ Len(results) = Len(identifiers)
    /\ \A i \in 1..Len(identifiers) : results[i].account_number = identifiers[i]

\* C28: process_accounts returns exactly one AccountResult per input
\* identifier, in input order, each carrying that identifier; so a call
\* that reaches processing ends with a success payload whose accounts
\* answer the distinct identifiers of the message one to one in
\* first-occurrence order, total_accounts is their number, and the call
\* never ends with "Processing failed".
C28_OneResultPerIdentifier ==
    /\ ~ErrorOfType(response, "Processing failed")
    /\ pc = "build" => OnePerIdentifier(eligibility_results, valid_accounts)
    /\ pc = "done" /\ "process" \in Range(stages) =>
          /\ IsPayload(response)
          /\ account_numbers = extract(user_message)
          /\ \A i, j \in 1..Len(account_numbers) :
                account_numbers[i] = account_numbers[j] => i = j
          /\ OnePerIdentifier(response.accounts, account_numbers)
          /\ response.summary.total_accounts = Len(account_numbers)

-----------------------------------------------------------------------------
(* Properties of a result within its batch *)

\* C29: what a call reports for an identifier depends only on that
\* identifier and the stores: once processing has run, the response holds,
\* for every identifier of the batch that process_single_account answers on
\* its own, exactly that answer; no other identifier of the batch changes it
\* or makes it missing.
C29_ResultDependsOnIdentifierOnly ==
    pc = "done" /\ "process" \in Range(stages) =>
        \A i \in 1..Len(valid_accounts) :
            \A one \in {process_single_account(valid_accounts[i])} :
                ~one.raised =>
                    \E j \in 1..Len(response.accounts) :
                        response.accounts[j] = one.result

-----------------------------------------------------------------------------
(* Concurrent first construction of the singletons *)

\* In the specification of this section several threads evaluate
\* ConfigLoader(), DataLoader() or EligibilityOrchestrator() while no
\* instance exists yet. The interpreter may switch threads between any two
\* reads or writes of an attribute, so every such read or write is a step.
\* Here pc maps a thread to its position, outcome maps a thread to what it
\* observed, and config_loader, data_loader and orchestrator hold, for
\* their class, cls._instance and the objects of the class.

MaxThreads == 2

Threads == 1..MaxThreads

SingletonClasses == {"ConfigLoader", "DataLoader", "EligibilityOrchestrator"}

\* what __init__ goes through after it set _initialized: the files a loader
\* reads in order; for the orchestrator the constructions of its try block,
\* ConfigLoader() and DataLoader() by the orchestrator itself and again by
\* EligibilityProcessor.__init__
InitSteps(cls) ==
    CASE cls = "ConfigLoader" -> ConfigDocs
      [] cls = "DataLoader" -> DataDocs
      [] OTHER -> <<"ConfigLoader", "DataLoader", "ConfigLoader", "DataLoader">>

\* an object as super().__new__(cls) returns it: no attribute assigned. The
\* attributes an orchestrator gets are its loaders, as the objects' numbers
\* in their classes, and its processor with the loaders and playbooks that
\* EligibilityProcessor.__init__ kept
NewObject ==
    [has_initialized |-> FALSE, initialized |-> FALSE, has_caches |-> FALSE,
     loaded |-> {}, config_loader |-> 0, data_loader |-> 0,
     eligibility_processor |-> [assigned |-> FALSE, config_loader |-> 0,
                                data_loader |-> 0, playbooks |-> FALSE]]

\* a class whose _instance is None
NoInstance == [instance |-> 0, objects |-> <<>>, loads |-> 0]

\* the three classes by name
classes ==
    [cls \in SingletonClasses |->
        CASE cls = "ConfigLoader" -> config_loader
          [] cls = "DataLoader" -> data_loader
          [] OTHER -> orchestrator]

\* the frame of a call cls(): __new__ then __init__; made are the objects
\* the constructions of an orchestrator's __init__ returned so far
NewFrame(cls) == [cls |-> cls, at |-> "new_test", self |-> 0, k |-> 0, made |-> <<>>]

\* the cache an accessor of cls._instance reads now: the file's content once
\* the load assigned it, the empty dict before
CacheNow(h, cls, name, i) ==
    IF h[cls].instance # 0 /\ i \in h[cls].objects[h[cls].instance].loaded
    THEN OnDisk[name]
    ELSE EmptyCaches[name]

\* a step of thread t leaves the thread as thread and the classes as h
Advance(t, thread, h) ==
    /\ pc' = [pc EXCEPT ![t] = thread]
    /\ config_loader' = h["ConfigLoader"]
    /\ data_loader' = h["DataLoader"]
    /\ orchestrator' = h["EligibilityOrchestrator"]
    /\ checks_catalog' = CacheNow(h, "ConfigLoader", "checks_catalog", 1)
    /\ reason_detection_rules' = CacheNow(h, "ConfigLoader", "reason_detection_rules", 2)
    /\ reason_playbook' = CacheNow(h, "ConfigLoader", "reason_playbook", 3)
    /\ explanation_playbook' = CacheNow(h, "ConfigLoader", "explanation_playbook", 4)
    /\ evidence_display_rules' = CacheNow(h, "ConfigLoader", "evidence_display_rules", 5)
    /\ eligible_customers' = CacheNow(h, "DataLoader", "eligible_customers", 1)
    /\ reasons_file' = CacheNow(h, "DataLoader", "reasons_file", 2)
    /\ UNCHANGED <<files, call_locals>>

\* thread t is inside cls() at position at
At(t, at) ==
    /\ pc[t].state = "running"
    /\ Head(pc[t].frames).at = at

\* thread t with the frame it is in replaced by frame
WithFrame(t, frame) == [pc[t] EXCEPT !.frames = <<frame>> \o Tail(pc[t].frames)]

\* the classes with object self of cls replaced by object
WithObject(h, cls, self, object) == [h EXCEPT ![cls].objects[self] = object]

\* an exception leaves the call: inside the orchestrator's try the except
\* clause logs and raises again, so the thread's statement raises either way
Raises(t) == [pc[t] EXCEPT !.state = "raised", !.frames = <<>>]

\* cls() returns object self of frame: to the thread's statement, which
\* then holds the instance, or into the orchestrator's __init__, where the
\* first two constructions are assigned to self.config_loader and
\* self.data_loader and the later two belong to the processor being built
Returns(t, h, frame) ==
    IF Len(pc[t].frames) = 1
    THEN [thread |-> [pc[t] EXCEPT !.state = "holding", !.frames = <<>>,
                                   !.held = frame.self],
          classes |-> h]
    ELSE LET caller == pc[t].frames[2]
             object == h[caller.cls].objects[caller.self]
         IN  [thread |-> [pc[t] EXCEPT !.frames =
                             <<[caller EXCEPT !.k = caller.k + 1,
                                              !.made = Append(caller.made, frame.self)]>>
                             \o Tail(Tail(pc[t].frames))],
              classes |-> WithObject(h, caller.cls, caller.self,
                             CASE caller.k = 0 -> [object EXCEPT !.config_loader = frame.self]
                               [] caller.k = 1 -> [object EXCEPT !.data_loader = frame.self]
                               [] OTHER -> object)]

\* __new__: if cls._instance is None
NewTest(t) ==
    /\ At(t, "new_test")
    /\ \E frame \in {Head(pc[t].frames)} :
          Advance(t, WithFrame(t, [frame EXCEPT !.at = IF classes[frame.cls].instance = 0
                                                       THEN "new_create"
                                                       ELSE "new_return"]),
                  classes)
    /\ UNCHANGED outcome

\* __new__: cls._instance = super().__new__(cls)
NewCreate(t) ==
    /\ At(t, "new_create")
    /\ \E frame \in {Head(pc[t].frames)} :
          Advance(t, WithFrame(t, [frame EXCEPT !.at = "new_read"]),
                  [classes EXCEPT ![frame.cls].objects = Append(@, NewObject),
                                  ![frame.cls].instance = Len(classes[frame.cls].objects) + 1])
    /\ UNCHANGED outcome

\* __new__: cls._instance._initialized = False, the read of cls._instance
NewRead(t) ==
    /\ At(t, "new_read")
    /\ \E frame \in {Head(pc[t].frames)} :
          Advance(t, WithFrame(t, [frame EXCEPT !.at = "new_clear",
                                                !.self = classes[frame.cls].instance]),
                  classes)
    /\ UNCHANGED outcome

\* __new__: cls._instance._initialized = False, the write to the object read
NewClear(t) ==
    /\ At(t, "new_clear")
    /\ \E frame \in {Head(pc[t].frames)} :
          Advance(t, WithFrame(t, [frame EXCEPT !.at = "new_return"]),
                  WithObject(classes, frame.cls, frame.self,
                             [classes[frame.cls].objects[frame.self]
                                 EXCEPT !.has_initialized = TRUE, !.initialized = FALSE]))
    /\ UNCHANGED outcome

\* __new__: return cls._instance; the object becomes self of __init__
NewReturn(t) ==
    /\ At(t, "new_return")
    /\ \E frame \in {Head(pc[t].frames)} :
          Advance(t, WithFrame(t, [frame EXCEPT !.at = "init_test",
                                                !.self = classes[frame.cls].instance]),
                  classes)
    /\ UNCHANGED outcome

\* __init__: if self._initialized: return. An object whose _initialized
\* was not assigned yet has no such attribute: AttributeError
InitTest(t) ==
    /\ At(t, "init_test")
    /\ \E frame \in {Head(pc[t].frames)} :
          \E object \in {classes[frame.cls].objects[frame.self]} :
             IF ~object.has_initialized
             THEN Advance(t, Raises(t), classes)
             ELSE IF object.initialized
             THEN \E returned \in {Returns(t, classes, frame)} :
                     Advance(t, returned.thread, returned.classes)
             ELSE Advance(t, WithFrame(t, [frame EXCEPT !.at = "init_set"]), classes)
    /\ UNCHANGED outcome

\* __init__: self._initialized = True (with the logger and the session
\* manager); the orchestrator goes on to its try block
InitSet(t) ==
    /\ At(t, "init_set")
    /\ \E frame \in {Head(pc[t].frames)} :
          Advance(t, WithFrame(t, [frame EXCEPT !.at = IF frame.cls = "EligibilityOrchestrator"
                                                       THEN "init_step"
                                                       ELSE "init_caches"]),
                  WithObject(classes, frame.cls, frame.self,
                             [classes[frame.cls].objects[frame.self]
                                 EXCEPT !.has_initialized = TRUE, !.initialized = TRUE]))
    /\ UNCHANGED outcome

\* __init__ of a loader: the caches are assigned empty dicts and
\* _load_all_configs or _load_all_data is entered
InitCaches(t) ==
    /\ At(t, "init_caches")
    /\ \E frame \in {Head(pc[t].frames)} :
          Advance(t, WithFrame(t, [frame EXCEPT !.at = "init_step"]),
                  [WithObject(classes, frame.cls, frame.self,
                              [classes[frame.cls].objects[frame.self]
                                  EXCEPT !.has_caches = TRUE, !.loaded = {}])
                      EXCEPT ![frame.cls].loads = @ + 1])
    /\ UNCHANGED outcome

\* _load_all_configs or _load_all_data: the next file is read and assigned
\* to its cache, or the load raises at a file that is missing or malformed
LoadFile(t) ==
    /\ At(t, "init_step")
    /\ \E frame \in {Head(pc[t].frames)} :
          /\ frame.cls # "EligibilityOrchestrator"
          /\ frame.k < Len(InitSteps(frame.cls))
          /\ IF files[InitSteps(frame.cls)[frame.k + 1]] = "ok"
             THEN Advance(t, WithFrame(t, [frame EXCEPT !.k = frame.k + 1]),
                          WithObject(classes, frame.cls, frame.self,
                                     [classes[frame.cls].objects[frame.self]
                                         EXCEPT !.loaded = @ \cup {frame.k + 1}]))
             ELSE Advance(t, Raises(t), classes)
    /\ UNCHANGED outcome

\* __init__ of a loader returns after its load
InitReturn(t) ==
    /\ At(t, "init_step")
    /\ \E frame \in {Head(pc[t].frames)} :
          /\ frame.cls # "EligibilityOrchestrator"
          /\ frame.k = Len(InitSteps(frame.cls))
          /\ \E returned \in {Returns(t, classes, frame)} :
                Advance(t, returned.thread, returned.classes)
    /\ UNCHANGED outcome

\* the orchestrator's try block evaluates its next ConfigLoader() or
\* DataLoader()
NewComponent(t) ==
    /\ At(t, "init_step")
    /\ \E frame \in {Head(pc[t].frames)} :
          /\ frame.cls = "EligibilityOrchestrator"
          /\ frame.k < Len(InitSteps(frame.cls))
          /\ Advance(t, [pc[t] EXCEPT !.frames = <<NewFrame(InitSteps(frame.cls)[frame.k + 1])>>
                                                 \o pc[t].frames],
                     classes)
    /\ UNCHANGED outcome

\* EligibilityProcessor.__init__ keeps what get_explanation_playbook() and
\* get_evidence_display_rules() of its ConfigLoader() return now, an
\* AttributeError when that object has no caches yet; the processor is
\* assigned to self.eligibility_processor and the orchestrator's __init__
\* returns
ProcessorSnapshot(t) ==
    /\ At(t, "init_step")
    /\ \E frame \in {Head(pc[t].frames)} :
          /\ frame.cls = "EligibilityOrchestrator"
          /\ frame.k = Len(InitSteps(frame.cls))
          /\ \E object \in {classes[frame.cls].objects[frame.self]} :
                \E config \in {classes["ConfigLoader"].objects[frame.made[3]]} :
                   IF ~config.has_caches
                   THEN Advance(t, Raises(t), classes)
                   ELSE \E returned \in
                           {Returns(t, WithObject(classes, frame.cls, frame.self,
                                       [object EXCEPT !.eligibility_processor =
                                           [assigned |-> TRUE,
                                            config_loader |-> frame.made[3],
                                            data_loader |-> frame.made[4],
                                            playbooks |-> {4, 5} \subseteq config.loaded]]),
                                    frame)} :
                           Advance(t, returned.thread, returned.classes)
    /\ UNCHANGED outcome

\* every file of cls is in the caches of object
FullyLoaded(cls, object) ==
    object.has_caches /\ object.loaded = 1..Len(InitSteps(cls))

\* the orchestrator object has its processor, which kept the loaded
\* playbooks and whose loaders have every file
OrchestratorReady(h, object) ==
    /\ object.eligibility_processor.assigned
    /\ object.eligibility_processor.playbooks
    /\ FullyLoaded("ConfigLoader",
                   h["ConfigLoader"].objects[object.eligibility_processor.config_loader])
    /\ FullyLoaded("DataLoader",
                   h["DataLoader"].objects[object.eligibility_processor.data_loader])

\* the instance a thread holds is one whose initialisation has completed
Complete(h, cls, self) ==
    IF cls = "EligibilityOrchestrator"
    THEN OrchestratorReady(h, h[cls].objects[self])
    ELSE FullyLoaded(cls, h[cls].objects[self])

\* the call a thread makes on the instance it obtained
FirstUse(cls) ==
    CASE cls = "ConfigLoader" -> "get_all_configs"
      [] cls = "DataLoader" -> "get_data_summary"
      [] OTHER -> "process_message"

\* the thread uses the instance it holds: get_all_configs() and
\* get_data_summary() read the caches, an AttributeError when they are not
\* assigned yet; process_message reads the components inside its try block,
\* whose except clause answers a missing one with the error response
UseInstance(t) ==
    /\ pc[t].state = "holding"
    /\ \E object \in {classes[pc[t].prog].objects[pc[t].held]} :
          outcome' = [outcome EXCEPT ![t] =
              [op |-> FirstUse(pc[t].prog),
               raised |-> pc[t].prog # "EligibilityOrchestrator" /\ ~object.has_caches,
               complete |-> Complete(classes, pc[t].prog, pc[t].held)]]
    /\ Advance(t, [pc[t] EXCEPT !.state = "finished"], classes)

\* no class has an instance; every thread is about to evaluate the
\* constructor of one of the three classes
InitThreads ==
    /\ files = [d \in Range(ConfigDocs) \cup Range(DataDocs) |-> "ok"]
    /\ checks_catalog = EmptyCaches.checks_catalog
    /\ reason_detection_rules = EmptyCaches.reason_detection_rules
    /\ reason_playbook = EmptyCaches.reason_playbook
    /\ explanation_playbook = EmptyCaches.explanation_playbook
    /\ evidence_display_rules = EmptyCaches.evidence_display_rules
    /\ eligible_customers = EmptyCaches.eligible_customers
    /\ reasons_file = EmptyCaches.reasons_file
    /\ config_loader = NoInstance
    /\ data_loader = NoInstance
    /\ orchestrator = NoInstance
    /\ outcome = [t \in Threads |-> [op |-> "none", raised |-> FALSE, complete |-> FALSE]]
    /\ user_message = PyNone
    /\ request_id = 0
    /\ is_eligibility_check = FALSE
    /\ account_numbers = <<>>
    /\ valid_accounts = <<>>
    /\ invalid_accounts = <<>>
    /\ eligibility_results = <<>>
    /\ processor_latency = 0
    /\ response = PyNone
    /\ stages = <<>>
    /\ calls = 0
    /\ prev_message = PyNone
    /\ prev_response = PyNone
    /\ log = <<>>
    /\ pc \in [Threads -> {[prog |-> cls, state |-> "running", frames |-> <<NewFrame(cls)>>,
                            held |-> 0] : cls \in SingletonClasses}]

NextThreads ==
    \E t \in Threads :
        \/ NewTest(t) \/ NewCreate(t) \/ NewRead(t) \/ NewClear(t) \/ NewReturn(t)
        \/ InitTest(t) \/ InitSet(t) \/ InitCaches(t) \/ LoadFile(t) \/ InitReturn(t)
        \/ NewComponent(t) \/ ProcessorSnapshot(t) \/ UseInstance(t)

SpecThreads == InitThreads /\ [][NextThreads]_vars

-----------------------------------------------------------------------------
(* Properties of concurrent construction *)

\* C30: when several threads construct ConfigLoader, DataLoader or
\* EligibilityOrchestrator concurrently for the first time, the load of a
\* class runs at most once, and every thread that obtained an instance, read
\* an accessor or ran process_message did so on an instance whose load had
\* completed
C30_OnceOnlyAndAtomic ==
    /\ \A cls \in SingletonClasses : classes[cls].loads <= 1
    /\ \A t \in Threads :
          /\ pc[t].state = "holding" => Complete(classes, pc[t].prog, pc[t].held)
          /\ pc[t].state = "finished" => ~outcome[t].raised /\ outcome[t].complete

====
